---- MODULE Spec2Model ----
(***************************************************************************)
(* Requirement-resolution and dialogue-turn engine of biz-agent.           *)
(*                                                                         *)
(* The session is the dict kept in the session store (app/session.py); a   *)
(* turn is one call of the POST /message handler (app/api.py, turn).       *)
(* Python dicts are modelled as sequences of [k, v] entries so that the    *)
(* insertion order, which _next_missing_field depends on, is kept.         *)
(* An Optional[List[str]] slot is a cell [t, items]: t = "none" for None,  *)
(* "list" for a list, "scalar" for a bare value.                           *)
(***************************************************************************)
EXTENDS Integers, Sequences, FiniteSets, TLC

VARIABLES session, turn, pure, store, proc, incentives, catalog, started,
          limits

\* the session store, the workers, the incentives table, the module-level
\* _catalog of field_validator_v1, the number of turns started, and what a
\* run is limited to: the failures still to come, the workers at a time,
\* and whether the requests and the collaborators' replies vary
storeVars == <<store, proc, incentives, catalog, started, limits>>

vars == <<session, turn, pure, storeVars>>

\* ------------------------------------------------------------------------
\* Bounds of the model
\* ------------------------------------------------------------------------
\* turns of one session
MaxTurns == 4

\* longest value list of a slot given to the helpers
MaxList == 2

\* most alternatives of a requirement expression given to the validator
MaxBranches == 3

\* longest list of matcher hits given to the workload resolver
MaxHits == 3

\* longest requirement expression, in tokens, given to the parser
MaxExpr == 5

\* turns started on the session store
MaxRuns == 2

\* failures of a collaborator or of the store in one run
MaxFaults == 1

\* ------------------------------------------------------------------------
\* Python values
\* ------------------------------------------------------------------------
Null == "None"

NoneCell == [t |-> "none", items |-> <<>>]

ListCell(items) == [t |-> "list", items |-> items]

ScalarCell(x) == [t |-> "scalar", items |-> <<x>>]

\* [value] if value else None
OneOrNone(x) == IF x = Null THEN NoneCell ELSE ListCell(<<x>>)

\* ------------------------------------------------------------------------
\* Ordered dicts
\* ------------------------------------------------------------------------
DictKeys(d) == [i \in 1..Len(d) |-> d[i].k]

DictHas(d, key) == \E i \in 1..Len(d) : d[i].k = key

DictGet(d, key) ==
  IF DictHas(d, key) THEN d[CHOOSE i \in 1..Len(d) : d[i].k = key].v ELSE NoneCell

DictSet(d, key, val) ==
  IF DictHas(d, key)
    THEN [i \in 1..Len(d) |-> IF d[i].k = key THEN [k |-> key, v |-> val] ELSE d[i]]
    ELSE Append(d, [k |-> key, v |-> val])

DictSetDefault(d, key, val) ==
  IF DictHas(d, key) THEN d ELSE Append(d, [k |-> key, v |-> val])

\* ------------------------------------------------------------------------
\* Strings as token sequences: a token is a word or one of " | ( ) ,"
\* ------------------------------------------------------------------------
RECURSIVE LStrip(_)
LStrip(toks) ==
  IF toks # <<>> /\ Head(toks) = " " THEN LStrip(Tail(toks)) ELSE toks

RECURSIVE RStrip(_)
RStrip(toks) ==
  IF toks # <<>> /\ toks[Len(toks)] = " "
    THEN RStrip(SubSeq(toks, 1, Len(toks) - 1))
    ELSE toks

\* str.strip()
Strip(toks) == RStrip(LStrip(toks))

\* the string a token sequence spells
RECURSIVE Join(_)
Join(toks) == IF toks = <<>> THEN "" ELSE Head(toks) \o Join(Tail(toks))

\* str.split(sep)
RECURSIVE SplitAcc(_, _, _)
SplitAcc(toks, sep, cur) ==
  IF toks = <<>> THEN <<cur>>
  ELSE IF Head(toks) = sep
    THEN <<cur>> \o SplitAcc(Tail(toks), sep, <<>>)
    ELSE SplitAcc(Tail(toks), sep, Append(cur, Head(toks)))

Split(toks, sep) == SplitAcc(toks, sep, <<>>)

Contains(toks, tok) == \E i \in 1..Len(toks) : toks[i] = tok

\* [x.strip() for x in parts if x.strip()]
RECURSIVE StripNonEmpty(_)
StripNonEmpty(parts) ==
  IF parts = <<>> THEN <<>>
  ELSE IF Strip(Head(parts)) = <<>>
    THEN StripNonEmpty(Tail(parts))
    ELSE <<Join(Strip(Head(parts)))>> \o StripNonEmpty(Tail(parts))

\* ------------------------------------------------------------------------
\* app/api.py helpers
\* ------------------------------------------------------------------------
ListOrNone(v) ==
  IF v.t = "none" THEN v
  ELSE IF v.t = "list" THEN v
  ELSE ListCell(v.items)

RECURSIVE MergeLoop(_, _)
MergeLoop(out, new) ==
  IF new = <<>> THEN out
  ELSE LET kk == Head(new).k
           vv == ListOrNone(Head(new).v)
       IN IF vv.t # "none" /\ Len(vv.items) > 0
            THEN MergeLoop(DictSet(out, kk, vv), Tail(new))
            ELSE MergeLoop(DictSetDefault(out, kk, NoneCell), Tail(new))

\* variant: the new value is stored even when it is None or empty
RECURSIVE MergeLoopErasing(_, _)
MergeLoopErasing(out, new) ==
  IF new = <<>> THEN out
  ELSE MergeLoopErasing(DictSet(out, Head(new).k, ListOrNone(Head(new).v)),
                        Tail(new))

MergeRequiredFieldsErasing(old, new) == MergeLoopErasing(old, new)

\* variant: a new value is added to the values the slot already has
RECURSIVE MergeRequiredFieldsAppending(_, _)
MergeRequiredFieldsAppending(out, new) ==
  IF new = <<>> THEN out
  ELSE LET kk == Head(new).k
           vv == ListOrNone(Head(new).v)
           had == IF DictHas(out, kk) /\ DictGet(out, kk).t = "list"
                    THEN DictGet(out, kk).items ELSE <<>>
       IN IF vv.t # "none" /\ Len(vv.items) > 0
            THEN MergeRequiredFieldsAppending(
                   DictSet(out, kk, ListCell(had \o vv.items)), Tail(new))
            ELSE MergeRequiredFieldsAppending(
                   DictSetDefault(out, kk, NoneCell), Tail(new))

MergeRequiredFields(old, new) == MergeLoop(old, new)

\* variant: req_expr instead of req_expr[1:]
TrailingFromRuleAll(req_expr) == StripNonEmpty(req_expr)

TrailingFromRule(req_expr) ==
  IF req_expr = <<>> THEN <<>> ELSE StripNonEmpty(Tail(req_expr))

IsBad(v) == v.t = "none" \/ (v.t = "list" /\ Len(v.items) # 1)

RECURSIVE FirstBad(_, _)
FirstBad(order, rf) ==
  IF order = <<>> THEN Null
  ELSE IF IsBad(DictGet(rf, Head(order))) THEN Head(order)
  ELSE FirstBad(Tail(order), rf)

\* variant: without the sweep over the keys of required_fields
NextMissingFieldNoSweep(s, req_expr) ==
  FirstBad(s.picked_set \o TrailingFromRule(req_expr), s.required_fields)

NextMissingField(s, req_expr) ==
  LET order == s.picked_set \o TrailingFromRule(req_expr)
      rf == s.required_fields
      m == FirstBad(order, rf)
  IN IF m # Null THEN m ELSE FirstBad(DictKeys(rf), rf)

\* ------------------------------------------------------------------------
\* app/intent_catalog.py: topic -> required_fields (list of expressions)
\* ------------------------------------------------------------------------
NameOrPair ==
  <<"name", " ", "|", " ", "(", "workload", ",", "incentive_type", ")">>

INTENTS ==
  [ recommend_engagement          |-> <<NameOrPair>>,
    customer_qualification        |-> <<NameOrPair>>,
    partner_qualification         |-> <<NameOrPair>>,
    earning_amount                |-> <<NameOrPair>>,
    calc_presales_workshop_payout |-> <<NameOrPair, <<"country">>, <<"acv">>, <<"hours">>>>,
    calc_presales_briefing_payout |-> <<NameOrPair, <<"country">>>>,
    activity_requirement          |-> <<NameOrPair>> ]

INTENT_NAMES == DOMAIN INTENTS

\* (s.get("last_intent") or {}).get("intent") or {}).get("required_fields") or []
ReqExprOf(last_intent) ==
  IF last_intent \in INTENT_NAMES THEN INTENTS[last_intent] ELSE <<>>

\* ------------------------------------------------------------------------
\* app/agents/field_validator_v1.py
\* ------------------------------------------------------------------------
\* a.startswith("(") and a.endswith(")"): true of "(" itself as well
StartsEnds(a) == a # <<>> /\ Head(a) = "(" /\ a[Len(a)] = ")"

\* variant: the alternatives between the bars are taken as they stand,
\* blanks included
ParseBranchUnstripped(expr0) ==
  LET expr == Strip(expr0)
      alt(a) == IF StartsEnds(a)
                  THEN StripNonEmpty(Split(SubSeq(a, 2, Len(a) - 1), ","))
                ELSE IF Contains(a, ",") THEN StripNonEmpty(Split(a, ","))
                ELSE <<Join(a)>>
  IN IF Contains(expr, "|")
       THEN LET alts == Split(expr, "|")
            IN [i \in 1..Len(alts) |-> alt(alts[i])]
     ELSE <<alt(expr)>>

ParseAlt(a) ==
  IF StartsEnds(a) THEN StripNonEmpty(Split(SubSeq(a, 2, Len(a) - 1), ","))
  ELSE IF Contains(a, ",") THEN StripNonEmpty(Split(a, ","))
  ELSE <<Join(a)>>

ParseBranch(expr0) ==
  LET expr == Strip(expr0)
  IN IF Contains(expr, "|")
       THEN LET alts == Split(expr, "|")
            IN [i \in 1..Len(alts) |-> ParseAlt(Strip(alts[i]))]
       ELSE <<ParseAlt(expr)>>

IsNameBranch(b) == b = <<"name">>

IsWkIncBranch(b) ==
  Len(b) = 2 /\ {b[i] : i \in 1..Len(b)} = {"workload", "incentive_type"}

\* variant: the resolved pair is tested before the resolved name
ChooseBranchPairFirst(branches, name_val, workload_val, inc_type) ==
  LET has_name_branch == \E i \in 1..Len(branches) : IsNameBranch(branches[i])
      has_wk_inc_branch == \E i \in 1..Len(branches) : IsWkIncBranch(branches[i])
  IN IF has_wk_inc_branch /\ workload_val # Null /\ inc_type # Null
       THEN <<"workload", "incentive_type">>
       ELSE IF has_name_branch /\ name_val # Null THEN <<"name">>
       ELSE IF has_name_branch /\ has_wk_inc_branch
         THEN <<"workload", "incentive_type">>
         ELSE branches[1]

\* variant: without the default to the pair when nothing is decisive
ChooseBranchFirstDeclared(branches, name_val, workload_val, inc_type) ==
  LET has_name_branch == \E i \in 1..Len(branches) : IsNameBranch(branches[i])
      has_wk_inc_branch == \E i \in 1..Len(branches) : IsWkIncBranch(branches[i])
  IN IF has_name_branch /\ name_val # Null THEN <<"name">>
     ELSE IF has_wk_inc_branch /\ workload_val # Null /\ inc_type # Null
       THEN <<"workload", "incentive_type">>
       ELSE branches[1]

ChooseBranch(branches, name_val, workload_val, inc_type) ==
  LET has_name_branch == \E i \in 1..Len(branches) : IsNameBranch(branches[i])
      has_wk_inc_branch == \E i \in 1..Len(branches) : IsWkIncBranch(branches[i])
  IN IF has_name_branch /\ has_wk_inc_branch
       THEN IF name_val # Null THEN <<"name">>
            ELSE IF workload_val # Null /\ inc_type # Null
              THEN <<"workload", "incentive_type">>
              ELSE <<"workload", "incentive_type">>
       ELSE IF has_name_branch /\ name_val # Null THEN <<"name">>
            ELSE IF has_wk_inc_branch /\ workload_val # Null /\ inc_type # Null
              THEN <<"workload", "incentive_type">>
              ELSE branches[1]

InSeq(x, seq) == \E i \in 1..Len(seq) : seq[i] = x

\* step 4, first part: the picked fields the validator knows, in code order
PickedRfo(picked, msg) ==
  LET r1 == IF InSeq("name", picked)
              THEN <<[k |-> "name", v |-> OneOrNone(msg.name)]>> ELSE <<>>
      r2 == IF InSeq("workload", picked)
              THEN DictSet(r1, "workload", OneOrNone(msg.workload)) ELSE r1
      r3 == IF InSeq("incentive_type", picked)
              THEN DictSet(r2, "incentive_type", OneOrNone(msg.incentive_type)) ELSE r2
      r4 == IF InSeq("acv", picked)
              THEN DictSet(r3, "acv", OneOrNone(msg.acv)) ELSE r3
  IN IF InSeq("hours", picked)
       THEN DictSet(r4, "hours", OneOrNone(msg.hours)) ELSE r4

\* step 4, second part: for f in trailing
RECURSIVE TrailingRfo(_, _, _)
TrailingRfo(rfo, trailing, msg) ==
  IF trailing = <<>> THEN rfo
  ELSE LET f == Head(trailing)
           v == IF f = "country" THEN OneOrNone(msg.country)
                ELSE IF f = "segment" THEN OneOrNone(msg.segment)
                ELSE IF f = "acv" THEN OneOrNone(msg.acv)
                ELSE IF f = "hours" THEN OneOrNone(msg.hours)
                ELSE NoneCell
       IN TrailingRfo(DictSet(rfo, f, v), Tail(trailing), msg)

\* msg: what the extractors of step 1 find in the message, field -> value or
\* Null (_extract_country always returns None on a first message)
FieldValidatorV1(msg, required_fields) ==
  IF required_fields = <<>>
    THEN [picked_set |-> <<>>, required_fields_object |-> <<>>]
    ELSE LET branches == ParseBranch(required_fields[1])
             trailing == StripNonEmpty(Tail(required_fields))
             picked == ChooseBranch(branches, msg.name, msg.workload, msg.incentive_type)
         IN [picked_set |-> picked,
             required_fields_object |->
               TrailingRfo(PickedRfo(picked, msg), trailing, msg)]

\* ------------------------------------------------------------------------
\* app/agents/followup_llm.py
\* A question text is the sequence of its whitespace-separated words; a
\* final "?" is the token "?" (glued to the word before it, no word of its
\* own) and "'" is a quote character at an end of the text.  Every word of
\* the vocabulary has at most its first letter in upper case.
\* ------------------------------------------------------------------------
\* len(words) > 15
WordCap == 15

\* str.lower() of one word
LowerWord(w) ==
  CASE w = "Please" -> "please"
    [] w = "Kindly" -> "kindly"
    [] w = "Could" -> "could"
    [] w = "Can" -> "can"
    [] w = "Which" -> "which"
    [] w = "I" -> "i"
    [] w = "I'll" -> "i'll"
    [] w = "Segment" -> "segment"
    [] w = "None" -> "none"
    [] OTHER -> w

\* str.lower()
LowerText(txt) == [i \in 1..Len(txt) |-> LowerWord(txt[i])]

\* _humanize_value(field_name, field_name)
HumanizeField(field_name) ==
  IF field_name = Null THEN <<"None">>
  ELSE IF field_name = "incentive_type" THEN <<"incentive", "type">>
  ELSE IF field_name = "segment" THEN <<"Segment">>
  ELSE <<field_name>>

\* _decanonicalize_text
RECURSIVE DecanonicalizeText(_)
DecanonicalizeText(txt) ==
  IF txt = <<>> THEN <<>>
  ELSE (CASE LowerWord(Head(txt)) = "pre_sales" -> <<"pre-sales">>
          [] LowerWord(Head(txt)) = "csp_transaction" -> <<"CSP", "transaction">>
          [] LowerWord(Head(txt)) = "smec" -> <<"SMEC">>
          [] Head(txt) = "incentive_type" -> <<"incentive", "type">>
          [] OTHER -> <<Head(txt)>>)
       \o DecanonicalizeText(Tail(txt))

\* txt.strip(" \n\r\t\"'`")
RECURSIVE StripQuotes(_)
StripQuotes(txt) ==
  IF txt # <<>> /\ Head(txt) = "'" THEN StripQuotes(Tail(txt))
  ELSE IF txt # <<>> /\ txt[Len(txt)] = "'"
    THEN StripQuotes(SubSeq(txt, 1, Len(txt) - 1))
    ELSE txt

\* if not txt.endswith("?"): txt += "?"
EndWithQuestionMark(txt) ==
  IF txt # <<>> /\ txt[Len(txt)] = "?" THEN txt ELSE Append(txt, "?")

\* a word follows position i, separated from it by whitespace
WordAfter(txt, i) == Len(txt) > i /\ txt[i + 1] # "?"

\* re.sub of a leading "I can " and of a leading "I'll "
DropICan(txt) ==
  LET t1 == IF Len(txt) >= 2 /\ LowerWord(txt[1]) = "i"
               /\ LowerWord(txt[2]) = "can" /\ WordAfter(txt, 2)
              THEN SubSeq(txt, 3, Len(txt)) ELSE txt
  IN IF t1 # <<>> /\ LowerWord(t1[1]) = "i'll" /\ WordAfter(t1, 1)
       THEN Tail(t1) ELSE t1

\* the rewording applied when the text repeats the previous question
Reword(txt) ==
  IF Len(txt) >= 2 /\ LowerWord(txt[1]) = "can" /\ LowerWord(txt[2]) = "you"
     /\ WordAfter(txt, 2)
    THEN EndWithQuestionMark(<<"Could">> \o Tail(txt))
    ELSE EndWithQuestionMark(<<"Could", "you", LowerWord(txt[1])>> \o Tail(txt))

\* words = txt.split()
WordCount(txt) == Cardinality({i \in 1..Len(txt) : txt[i] # "?"})

\* [w for w in words if w.lower() not in {"please", "kindly"}]
RECURSIVE DropPolite(_)
DropPolite(txt) ==
  IF txt = <<>> THEN <<>>
  ELSE IF LowerWord(Head(txt)) \in {"please", "kindly"} /\ WordAfter(txt, 1)
    THEN DropPolite(Tail(txt))
    ELSE <<Head(txt)>> \o DropPolite(Tail(txt))

\* _postprocess; q = <<>> stands for None, a non-string and a blank string
Postprocess(q, last_question_text) ==
  IF q = <<>> THEN <<>>
  ELSE LET t1 == StripQuotes(q)
           t2 == DecanonicalizeText(t1)
           t3 == EndWithQuestionMark(t2)
           t4 == DropICan(t3)
           t5 == IF last_question_text # <<>>
                    /\ LowerText(t4) = LowerText(last_question_text)
                   THEN Reword(t4) ELSE t4
       IN IF WordCount(t5) > WordCap
            THEN EndWithQuestionMark(DropPolite(t5)) ELSE t5

\* generate_followup_question; llm is what the model call gives: ok = FALSE
\* when llm.invoke or json.loads raises, else the text under "question"
GenerateFollowupQuestion(field_name, llm, last_question_text) ==
  LET q == IF ~llm.ok THEN <<>> ELSE Postprocess(llm.question, last_question_text)
  IN IF q # <<>> THEN q
     ELSE Postprocess(<<"Please", "provide">> \o HumanizeField(field_name)
                        \o <<"?">>,
                      last_question_text)

\* ------------------------------------------------------------------------
\* app/agents/continuation_agent.py
\* A text is the sequence of its characters.
\* ------------------------------------------------------------------------
LowerLetters ==
  <<"a", "b", "c", "d", "e", "f", "g", "h", "i", "j", "k", "l", "m", "n",
  "o", "p", "q", "r", "s", "t", "u", "v", "w", "x", "y", "z">>

UpperLetters ==
  <<"A", "B", "C", "D", "E", "F", "G", "H", "I", "J", "K", "L", "M", "N",
  "O", "P", "Q", "R", "S", "T", "U", "V", "W", "X", "Y", "Z">>

\* str.lower() of one character
LowerChar(c) ==
  IF \E i \in 1..26 : UpperLetters[i] = c
    THEN LowerLetters[CHOOSE i \in 1..26 : UpperLetters[i] = c]
    ELSE c

\* a character a regular expression counts as part of a word (\w)
IsWordChar(c) ==
  \/ \E i \in 1..26 : LowerLetters[i] = c \/ UpperLetters[i] = c
  \/ c \in {"0", "1", "2", "3", "4", "5", "6", "7", "8", "9", "_"}

\* s.replace("&", " and ")
RECURSIVE ReplaceAmp(_)
ReplaceAmp(s) ==
  IF s = <<>> THEN <<>>
  ELSE (IF Head(s) = "&" THEN <<" ", "a", "n", "d", " ">> ELSE <<Head(s)>>)
       \o ReplaceAmp(Tail(s))

\* re.sub(r"\s+", " ", s)
RECURSIVE CollapseSpaces(_)
CollapseSpaces(s) ==
  IF s = <<>> THEN <<>>
  ELSE IF Head(s) = " " /\ Len(s) >= 2 /\ s[2] = " "
    THEN CollapseSpaces(Tail(s))
    ELSE <<Head(s)>> \o CollapseSpaces(Tail(s))

\* _clean_text
CleanText(s) ==
  Strip(CollapseSpaces(ReplaceAmp([i \in 1..Len(s) |-> LowerChar(s[i])])))

\* p occurs in s at position i
OccursAt(p, s, i) ==
  /\ i >= 1 /\ i + Len(p) - 1 <= Len(s)
  /\ SubSeq(s, i, i + Len(p) - 1) = p

\* p in s
Occurs(p, s) == \E i \in 1..Len(s) : OccursAt(p, s, i)

\* re.search(r"\bp\b", s) for a literal p that starts and ends with a
\* word character
WordOccurs(p, s) ==
  \E i \in 1..Len(s) :
    /\ OccursAt(p, s, i)
    /\ i = 1 \/ ~IsWordChar(s[i - 1])
    /\ i + Len(p) > Len(s) \/ ~IsWordChar(s[i + Len(p)])

\* _RESET_PATTERNS, each alternation written out; every pattern stands
\* between two \b ("vs" stands for vs\.? : the optional dot adds no match)
ResetPatterns ==
  { <<"n", "e", "w", " ", "r", "e", "q", "u", "e", "s", "t">>,
    <<"n", "e", "w", " ", "t", "o", "p", "i", "c">>,
    <<"n", "e", "w", " ", "q", "u", "e", "s", "t", "i", "o", "n">>,
    <<"s", "t", "a", "r", "t", " ", "o", "v", "e", "r">>,
    <<"r", "e", "s", "e", "t">>,
    <<"a", "n", "o", "t", "h", "e", "r", " ", "e", "n", "g", "a", "g", "e", "m", "e", "n", "t">>,
    <<"a", "n", "o", "t", "h", "e", "r", " ", "w", "o", "r", "k", "l", "o", "a", "d">>,
    <<"a", "n", "o", "t", "h", "e", "r", " ", "t", "o", "p", "i", "c">>,
    <<"a", "n", "o", "t", "h", "e", "r", " ", "c", "u", "s", "t", "o", "m", "e", "r">>,
    <<"d", "i", "f", "f", "e", "r", "e", "n", "t", " ", "e", "n", "g", "a", "g", "e", "m", "e", "n", "t">>,
    <<"d", "i", "f", "f", "e", "r", "e", "n", "t", " ", "w", "o", "r", "k", "l", "o", "a", "d">>,
    <<"d", "i", "f", "f", "e", "r", "e", "n", "t", " ", "t", "o", "p", "i", "c">>,
    <<"d", "i", "f", "f", "e", "r", "e", "n", "t", " ", "c", "u", "s", "t", "o", "m", "e", "r">>,
    <<"c", "h", "a", "n", "g", "e", " ", "w", "o", "r", "k", "l", "o", "a", "d">>,
    <<"c", "h", "a", "n", "g", "e", " ", "i", "n", "c", "e", "n", "t", "i", "v", "e">>,
    <<"c", "h", "a", "n", "g", "e", " ", "t", "o", "p", "i", "c">>,
    <<"c", "o", "m", "p", "a", "r", "e">>,
    <<"v", "s">>,
    <<"i", "n", "s", "t", "e", "a", "d">> }

\* _ANAPHORA_HINTS
AnaphoraHints ==
  { <<"t", "h", "i", "s", " ", "w", "o", "r", "k", "s", "h", "o", "p">>,
    <<"t", "h", "a", "t", " ", "w", "o", "r", "k", "s", "h", "o", "p">>,
    <<"t", "h", "e", " ", "w", "o", "r", "k", "s", "h", "o", "p">>,
    <<"t", "h", "e", " ", "e", "n", "g", "a", "g", "e", "m", "e", "n", "t">>,
    <<"a", "b", "o", "v", "e">>,
    <<"t", "h", "i", "s">>,
    <<"t", "h", "a", "t">>,
    <<"t", "h", "o", "s", "e">>,
    <<"i", "t">> }

\* _DETAIL_HINTS
DetailHints ==
  { <<"m", "o", "r", "e", " ", "d", "e", "t", "a", "i", "l">>,
    <<"d", "e", "t", "a", "i", "l", "s">>,
    <<"q", "u", "a", "l", "i", "f", "i", "c", "a", "t", "i", "o", "n">>,
    <<"q", "u", "a", "l", "i", "f", "i", "c", "a", "t", "i", "o", "n", "s">>,
    <<"a", "c", "t", "i", "v", "i", "t", "y", " ", "r", "e", "q", "u", "i", "r", "e", "m", "e", "n", "t">>,
    <<"r", "e", "q", "u", "i", "r", "e", "m", "e", "n", "t", "s">>,
    <<"m", "o", "d", "u", "l", "e", "s">>,
    <<"m", "o", "d", "u", "l", "e">>,
    <<"g", "o", "a", "l">>,
    <<"g", "o", "a", "l", "s">>,
    <<"a", "c", "v">>,
    <<"m", "s", "x">>,
    <<"t", "p", "i", "d">>,
    <<"p", "r", "o", "o", "f", " ", "o", "f", " ", "e", "x", "e", "c", "u", "t", "i", "o", "n">>,
    <<"m", "a", "r", "k", "e", "t">>,
    <<"m", "a", "r", "k", "e", "t", " ", "b", "a", "n", "d">>,
    <<"r", "a", "t", "e">>,
    <<"e", "a", "r", "n", "i", "n", "g">>,
    <<"h", "o", "u", "r", "s">>,
    <<"d", "u", "r", "a", "t", "i", "o", "n">>,
    <<"s", "c", "o", "p", "e">>,
    <<"d", "e", "l", "i", "v", "e", "r", "a", "b", "l", "e">>,
    <<"d", "e", "l", "i", "v", "e", "r", "a", "b", "l", "e", "s">>,
    <<"s", "u", "m", "m", "a", "r", "y">>,
    <<"s", "u", "m", "m", "a", "r", "i", "z", "e">>,
    <<"w", "h", "a", "t", " ", "a", "b", "o", "u", "t">>,
    <<"h", "o", "w", " ", "m", "u", "c", "h">>,
    <<"w", "h", "a", "t", " ", "i", "s">>,
    <<"w", "h", "a", "t", " ", "a", "r", "e">>,
    <<"c", "a", "n", " ", "y", "o", "u">> }

\* _NAME_FAMILY_SYNS["erp"]
ErpSyns ==
  { <<"e", "r", "p">>,
    <<"f", "i", "n", "a", "n", "c", "e">>,
    <<"f", "s", "c", "m">>,
    <<"s", "u", "p", "p", "l", "y", " ", "c", "h", "a", "i", "n">>,
    <<"b", "u", "s", "i", "n", "e", "s", "s", " ", "c", "e", "n", "t", "r", "a", "l">>,
    <<"b", "c">>,
    <<"p", "r", "o", "j", "e", "c", "t", " ", "o", "p", "e", "r", "a", "t", "i", "o", "n", "s">>,
    <<"c", "o", "m", "m", "e", "r", "c", "e">>,
    <<"h", "u", "m", "a", "n", " ", "r", "e", "s", "o", "u", "r", "c", "e", "s">>,
    <<"h", "r">> }

\* _NAME_FAMILY_SYNS["crm"]
CrmSyns ==
  { <<"c", "r", "m">>,
    <<"c", "u", "s", "t", "o", "m", "e", "r", " ", "e", "n", "g", "a", "g", "e", "m", "e", "n", "t">>,
    <<"s", "a", "l", "e", "s">>,
    <<"c", "u", "s", "t", "o", "m", "e", "r", " ", "s", "e", "r", "v", "i", "c", "e">>,
    <<"f", "i", "e", "l", "d", " ", "s", "e", "r", "v", "i", "c", "e">>,
    <<"c", "o", "n", "t", "a", "c", "t", " ", "c", "e", "n", "t", "e", "r">>,
    <<"c", "u", "s", "t", "o", "m", "e", "r", " ", "i", "n", "s", "i", "g", "h", "t", "s">>,
    <<"c", "i">> }

\* _NAME_FAMILY_SYNS
NameFamilySyns == [erp |-> ErpSyns, crm |-> CrmSyns]

\* _result_names_summary: the names of the first five rows; a last_result
\* is modelled as the sequence of its rows' names
ResultNamesSummary(rows) == SubSeq(rows, 1, IF Len(rows) < 5 THEN Len(rows) ELSE 5)

\* " || ".join(names)
RECURSIVE JoinNames(_)
JoinNames(names) ==
  IF names = <<>> THEN <<>>
  ELSE IF Len(names) = 1 THEN Head(names)
  ELSE Head(names) \o <<" ", "|", "|", " ">> \o JoinNames(Tail(names))

\* _mentions_family
MentionsFamily(text, family) ==
  \E kw \in NameFamilySyns[family] : Occurs(CleanText(kw), CleanText(text))

\* _family_in_names
FamilyInNames(family, names) ==
  \E kw \in NameFamilySyns[family] :
    Occurs(CleanText(kw), CleanText(JoinNames(names)))

\* _mentions_different_family
MentionsDifferentFamily(msg, last_names) ==
  \E fam \in DOMAIN NameFamilySyns :
    MentionsFamily(msg, fam) /\ ~FamilyInNames(fam, last_names)

\* variant: the hints are tested before the reset patterns and the family
QuickHeuristicHintsFirst(user_message, last_result) ==
  LET msg_clean == CleanText(user_message)
      last_names == ResultNamesSummary(last_result)
  IN IF last_result = <<>> THEN "false"
     ELSE IF \E h \in AnaphoraHints \cup DetailHints : Occurs(h, msg_clean)
       THEN "true"
     ELSE IF \E pat \in ResetPatterns : WordOccurs(pat, msg_clean) THEN "false"
     ELSE IF MentionsDifferentFamily(user_message, last_names) THEN "false"
     ELSE "none"

\* _quick_heuristic: "true", "false", or "none" for None (left to the
\* classifier)
QuickHeuristic(user_message, last_result) ==
  LET msg_clean == CleanText(user_message)
      last_names == ResultNamesSummary(last_result)
  IN IF last_result = <<>> THEN "false"
     ELSE IF \E pat \in ResetPatterns : WordOccurs(pat, msg_clean) THEN "false"
     ELSE IF MentionsDifferentFamily(user_message, last_names) THEN "false"
     ELSE IF \E h \in AnaphoraHints : Occurs(h, msg_clean) THEN "true"
     ELSE IF \E h \in DetailHints : Occurs(h, msg_clean) THEN "true"
     ELSE "none"

\* what the classifier stage can meet: the client cannot be constructed
\* ("no_client"), llm.invoke raises, the reply is no JSON, the reply is JSON
\* but no object, or it is an object whose is_continuation is true, false or
\* the string "false"
ClassifierOutcomes ==
  {"no_client", "invoke_raises", "unparsable", "not_object",
   "true", "false", "string_false"}

\* detect_continuation: out is "true" / "false" (is_continuation) or
\* "raised" when an exception leaves the function; classifier tells whether
\* llm.invoke was reached
DetectContinuation(user_message, last_result, llm) ==
  LET h == QuickHeuristic(user_message, last_result)
  IN IF h # "none" THEN [h |-> h, classifier |-> FALSE, out |-> h]
     ELSE IF llm = "no_client"
       THEN [h |-> h, classifier |-> FALSE, out |-> "raised"]
     ELSE IF llm \in {"invoke_raises", "unparsable", "not_object"}
       THEN [h |-> h, classifier |-> TRUE, out |-> "false"]
     ELSE IF llm \in {"true", "string_false"}
       THEN [h |-> h, classifier |-> TRUE, out |-> "true"]
     ELSE [h |-> h, classifier |-> TRUE, out |-> "false"]

\* ------------------------------------------------------------------------
\* Inputs of a turn (small sets)
\* ------------------------------------------------------------------------
\* field names a caller names on a follow-up turn: the field the session is
\* asking for, a field outside every requirement ("segment"), or "name"
FollowupFields(s) ==
  {"name", "segment"}
    \cup (IF s.followup.set /\ s.followup.field_name # Null
           THEN {s.followup.field_name} ELSE {})

\* canonical values the resolvers can produce for a field
Values(f) ==
  IF f = "name" THEN {"n1", "n2"}
  ELSE IF f = "workload" THEN {"w1"}
  ELSE IF f = "incentive_type" THEN {"pre_sales"}
  ELSE IF f = "segment" THEN {"enterprise"}
  ELSE IF f = "country" THEN {"United States"}
  ELSE IF f = "acv" THEN {"10000"}
  ELSE IF f = "hours" THEN {"8"}
  ELSE {}

\* what field_validator_v1's extractors find in a fresh-text message
Msg(n, w, i, a, h) ==
  [name |-> n, workload |-> w, incentive_type |-> i, segment |-> Null,
   country |-> Null, acv |-> a, hours |-> h]

Messages ==
  { Msg(Null, Null, Null, Null, Null),
    Msg("n1", Null, Null, Null, Null),
    Msg("n2", Null, Null, "10000", "8"),
    Msg(Null, "w1", Null, Null, Null),
    Msg(Null, "w1", "pre_sales", Null, Null) }

\* topics detect_intent can return in the model ("unknown" = fallback)
DetectTopics ==
  {"recommend_engagement", "calc_presales_workshop_payout", "unknown"}

Routes == {"incentive_lookup", "doc_qa", "fail"}

\* ------------------------------------------------------------------------
\* app/agents/field_value_resolver.py
\* ------------------------------------------------------------------------
\* fields resolve_field_from_message has a strategy for; any other field
\* (in particular "name") falls to the last line and yields value None
ResolvableFields ==
  {"workload", "incentive_type", "segment", "country", "acv", "hours"}

\* outcomes of resolve_field_from_message(field, message): a value or Null;
\* for "acv" only Null, of an empty message (the pattern of its
\* _extract_acv_value does not compile, a call with any other message raises)
ResolveOutcomes(field) ==
  IF field = "acv" THEN {Null}
  ELSE IF field \in ResolvableFields THEN Values(field) \cup {Null}
  ELSE {Null}

\* sorted(pairs, key=score, reverse=True): Python's sort is stable, so a pair
\* goes behind every pair already placed whose score is at least its own
RECURSIVE InsertByScore(_, _)
InsertByScore(sorted, p) ==
  IF sorted = <<>> THEN <<p>>
  ELSE IF Head(sorted).score >= p.score
    THEN <<Head(sorted)>> \o InsertByScore(Tail(sorted), p)
  ELSE <<p>> \o sorted

RECURSIVE SortedByScore(_)
SortedByScore(pairs) ==
  IF pairs = <<>> THEN <<>>
  ELSE InsertByScore(SortedByScore(SubSeq(pairs, 1, Len(pairs) - 1)),
                     pairs[Len(pairs)])

\* the seen-set loop: the first pair of each value is kept
RECURSIVE FirstOfEachValue(_, _)
FirstOfEachValue(pairs, seen) ==
  IF pairs = <<>> THEN <<>>
  ELSE IF Head(pairs).value \in seen
    THEN FirstOfEachValue(Tail(pairs), seen)
  ELSE <<Head(pairs)>>
         \o FirstOfEachValue(Tail(pairs), seen \cup {Head(pairs).value})

\* out[:top]
Truncate(seq, n) == SubSeq(seq, 1, IF Len(seq) < n THEN Len(seq) ELSE n)

\* _rank_unique
RankUnique(pairs, top) ==
  Truncate(FirstOfEachValue(SortedByScore(pairs), {}), top)

\* variant: the cluster of three plausible candidates does not block the pick
ResolveWorkloadNoCluster(pairs) ==
  LET cands == RankUnique(pairs, 8)
  IN IF cands = <<>> THEN [value |-> Null, candidates |-> <<>>]
     ELSE LET top_score == cands[1].score
              NearTie(c) == top_score - c.score <= 5
              near_ties == SelectSeq(cands, NearTie)
          IN IF top_score >= 90
               THEN [value |-> cands[1].value, candidates |-> cands]
             ELSE IF Len(near_ties) >= 2
               THEN [value |-> Null, candidates |-> Truncate(cands, 5)]
             ELSE IF top_score >= 80
               THEN [value |-> cands[1].value, candidates |-> cands]
             ELSE [value |-> Null, candidates |-> Truncate(cands, 5)]

\* _resolve_workload, from the merged hits syn_hits + fuzzy on
ResolveWorkload(pairs) ==
  LET cands == RankUnique(pairs, 8)
  IN IF cands = <<>> THEN [value |-> Null, candidates |-> <<>>]
     ELSE LET top_score == cands[1].score
              NearTie(c) == top_score - c.score <= 5
              Plausible(c) == c.score >= 80
              near_ties == SelectSeq(cands, NearTie)
              plausible == SelectSeq(cands, Plausible)
          IN IF top_score >= 90
               THEN [value |-> cands[1].value, candidates |-> cands]
             ELSE IF Len(near_ties) >= 2 \/ Len(plausible) >= 3
               THEN [value |-> Null, candidates |-> Truncate(cands, 5)]
             ELSE IF top_score >= 80
               THEN [value |-> cands[1].value, candidates |-> cands]
             ELSE [value |-> Null, candidates |-> Truncate(cands, 5)]

\* field_validator_v1's _resolve_with_syns_and_fuzzy, from the merged hits
\* on: _rank_and_unique(all_pairs, top=5), then the one acceptance threshold
ResolveWithSynsAndFuzzy(pairs, accept_if_score_ge) ==
  LET cands == RankUnique(pairs, 5)
  IN [value |-> IF cands # <<>> /\ cands[1].score >= accept_if_score_ge
                  THEN cands[1].value ELSE Null,
      candidates |-> cands]

\* ------------------------------------------------------------------------
\* app/session.py and the session-level steps of app/api.py
\* ------------------------------------------------------------------------
NoFollowup == [set |-> FALSE, field_name |-> Null]

Followup(f) == [set |-> TRUE, field_name |-> f]

\* create_session
CreateSession ==
  [ required_fields |-> <<>>,
    picked_set |-> <<>>,
    last_intent |-> "",
    followup |-> NoFollowup,
    final_answer |-> Null,
    last_result |-> FALSE,
    last_docs |-> FALSE,
    last_path |-> "",
    asked_log |-> <<>>,
    turns |-> 0 ]

\* what the last turn did: its kind, the field a follow-up named, the exit
\* it took, the fields its own resolution gave a non-empty value for, how
\* often it called filter_incentives / an answer generator / detect_intent,
\* and the collaborators it called, in call order: "route" (route_message),
\* "continuation" (detect_continuation), "intent" (app_graph.invoke),
\* "validator" (field_validator_v1), "resolve" (resolve_field_from_message),
\* "db" (filter_incentives), "answer" (generate_final_answer), "docqa"
\* (docqa_turn), "question" (generate_followup_question); for a text turn
\* also what route_message gave ("fail": it raised)
NoTurn ==
  [ kind |-> "none", field |-> Null, exit |-> "none", resolved |-> {},
    db |-> 0, answers |-> 0, intent |-> 0, calls |-> <<>>, route |-> Null ]

\* _make_api_response
MakeApiResponse(s) ==
  IF s.followup.set /\ s.followup.field_name # Null
    THEN [response_type |-> "follow_up", field_name |-> s.followup.field_name,
          text |-> Null]
  ELSE IF s.final_answer # Null
    THEN [response_type |-> "final_answer", field_name |-> Null,
          text |-> s.final_answer]
  ELSE [response_type |-> "follow_up", field_name |-> Null, text |-> Null]

\* add_message(session_id, "user", ...): one more user message in the history
AppendUserMessage(s) == [s EXCEPT !.turns = @ + 1]

\* docqa_turn followed by s["last_path"] = "doc_qa"
DocqaTurn(s, docs) ==
  [s EXCEPT !.final_answer = "doc", !.last_docs = docs, !.last_path = "doc_qa"]

\* app/agents/db_filter_service.py, _prepare_filters: the fields of
\* FIELD_TO_COLUMN, in its order, whose slot _listify finds non-empty; every
\* other key of required_fields is skipped
AppliedFilters(required_fields) ==
  SelectSeq(<<"name", "workload", "incentive_type">>,
            LAMBDA field :
              LET v == DictGet(required_fields, field)
              IN v.t = "scalar" \/ (v.t = "list" /\ Len(v.items) > 0))

\* _run_db_filter_and_save
RunDbFilterAndSave(s, rows) == [s EXCEPT !.last_result = rows]

\* _run_final_answer_and_save
RunFinalAnswerAndSave(s) == [s EXCEPT !.final_answer = "incentive"]

\* the shared tail: clear followup, query, answer, last_path
Finalize(s, rows) ==
  LET s1 == [s EXCEPT !.followup = NoFollowup]
      s2 == RunDbFilterAndSave(s1, rows)
      s3 == RunFinalAnswerAndSave(s2)
  IN [s3 EXCEPT !.last_path = "incentive_lookup"]

\* variant: the catalog query and the answer synthesis run a second time
FinalizeCallsTwice == <<"db", "answer", "db", "answer">>

\* the collaborators the shared tail calls: _run_db_filter_and_save, then
\* _run_final_answer_and_save
FinalizeCalls == <<"db", "answer">>

\* the collaborator the ask-next-missing tail calls
AskCalls == <<"question">>

\* ask next missing field (text and follow-up turns)
AskField(s, missing) == [s EXCEPT !.followup = Followup(missing)]

\* (s.get("asked_log") or {}).get(field, 0)
AskedLogGet(s, field) ==
  IF field \in DOMAIN s.asked_log THEN s.asked_log[field] ELSE 0

\* variant: the re-ask turns to the next missing field of the session
ReaskNextMissing(s, field) ==
  LET attempt == 1 + AskedLogGet(s, field)
      missing == NextMissingField(s, ReqExprOf(s.last_intent))
  IN [s EXCEPT
        !.asked_log = [f \in DOMAIN @ \cup {field} |->
                         IF f = field THEN attempt ELSE @[f]],
        !.followup = Followup(missing)]

\* follow-up turn, value is None: attempt = 1 + asked_log[field]; the
\* question is generated for the same field and stored as the followup
Reask(s, field) ==
  LET attempt == 1 + AskedLogGet(s, field)
  IN [s EXCEPT
        !.asked_log = [f \in DOMAIN @ \cup {field} |->
                         IF f = field THEN attempt ELSE @[f]],
        !.followup = Followup(field)]

\* is_complete of the text turn
IsComplete(s, req_expr) ==
  LET required_keys == s.picked_set \o TrailingFromRule(req_expr)
  IN /\ required_keys # <<>>
     /\ \A i \in 1..Len(required_keys) :
          LET v == DictGet(s.required_fields, required_keys[i])
          IN v.t = "list" /\ Len(v.items) = 1

\* variant: the follow-up makes the named field the active branch
StoreFollowupValueRepick(s, field, value) ==
  [s EXCEPT !.required_fields = DictSet(@, field, ListCell(<<value>>)),
            !.picked_set = <<field>>,
            !.followup = NoFollowup]

\* variant: the follow-up replaces required_fields by the one resolved field
StoreFollowupValueOnly(s, field, value) ==
  [s EXCEPT !.required_fields = <<[k |-> field, v |-> ListCell(<<value>>)]>>,
            !.followup = NoFollowup]

\* follow-up turn, value is not None: rf[field] = [value]; followup = None
StoreFollowupValue(s, field, value) ==
  [s EXCEPT !.required_fields = DictSet(@, field, ListCell(<<value>>)),
            !.followup = NoFollowup]

\* text turn: merge the validator's result into the session
StoreFieldResult(s, field_result) ==
  LET merged == MergeRequiredFields(s.required_fields,
                                    field_result.required_fields_object)
  IN [s EXCEPT !.picked_set = field_result.picked_set,
               !.required_fields =
                 [i \in 1..Len(merged) |->
                    [k |-> merged[i].k, v |-> ListOrNone(merged[i].v)]]]

\* ------------------------------------------------------------------------
\* The turn handler (app/api.py, turn), one action per exit path
\* ------------------------------------------------------------------------
\* "Route FIRST": on success the route is remembered as last_path
\* (_set_active_question); a failing router leaves the session as it was
AfterRoute(s, route) ==
  IF route = "fail" THEN s ELSE [s EXCEPT !.last_path = route]

\* detect_continuation can answer true only with a cached last_result
ContinuationOutcomes(s) == IF s.last_result THEN BOOLEAN ELSE {FALSE}

\* keys of a resolution whose value is a non-empty list
ResolvedKeys(rfo) ==
  {rfo[i].k : i \in {j \in 1..Len(rfo) :
                       ListOrNone(rfo[j].v).t = "list"
                       /\ Len(ListOrNone(rfo[j].v).items) > 0}}

\* every exit saves the session and returns _make_api_response(s)
Done(s, t) ==
  /\ session' = s
  /\ turn' = t
  /\ UNCHANGED <<pure, storeVars>>

\* variant: intent detection runs before the continuation check
FreshCallsIntentFirst(s) ==
  <<"route", "intent">>
    \o (IF s.last_result \/ s.last_docs THEN <<"continuation">> ELSE <<>>)
    \o <<"validator">>

\* the collaborators a text turn calls up to field validation when it is
\* neither routed to doc_qa nor a continuation: the router; the continuation
\* check if last_result or last_docs is non-empty; the intent graph; the
\* validator
FreshCalls(s) ==
  <<"route">>
    \o (IF s.last_result \/ s.last_docs THEN <<"continuation">> ELSE <<>>)
    \o <<"intent", "validator">>

\* text turn routed to doc_qa
TextTurnDocQa ==
  /\ session.turns < MaxTurns
  /\ \E docs \in BOOLEAN :
       LET s1 == AfterRoute(AppendUserMessage(session), "doc_qa")
       IN Done(DocqaTurn(s1, docs),
               [NoTurn EXCEPT !.kind = "text", !.exit = "doc_qa",
                              !.answers = 1, !.route = "doc_qa",
                              !.calls = <<"route", "docqa">>])

\* text turn on the structured route that continues the cached result
TextTurnContinuation ==
  /\ session.turns < MaxTurns
  /\ \E route \in Routes \ {"doc_qa"}, docs \in BOOLEAN :
       LET s1 == AfterRoute(AppendUserMessage(session), route)
       IN /\ (s1.last_result \/ s1.last_docs)
          /\ TRUE \in ContinuationOutcomes(s1)
          /\ IF s1.last_path = "doc_qa"
               THEN Done(DocqaTurn(s1, docs),
                         [NoTurn EXCEPT !.kind = "text", !.route = route,
                                        !.exit = "continuation_doc",
                                        !.answers = 1,
                                        !.calls = <<"route", "continuation",
                                                    "docqa">>])
               ELSE Done([RunFinalAnswerAndSave(s1) EXCEPT
                            !.last_path = "incentive_lookup"],
                         [NoTurn EXCEPT !.kind = "text", !.route = route,
                                        !.exit = "continuation",
                                        !.answers = 1,
                                        !.calls = <<"route", "continuation",
                                                    "answer">>])

\* text turn that runs intent detection, branch selection, field resolution
TextTurnFresh ==
  /\ session.turns < MaxTurns
  /\ \E route \in Routes \ {"doc_qa"}, topic \in DetectTopics,
        msg \in Messages :
       LET s1 == AfterRoute(AppendUserMessage(session), route)
           s2 == [s1 EXCEPT !.last_intent = topic]
           req_expr == ReqExprOf(s2.last_intent)
           field_result == FieldValidatorV1(msg, req_expr)
           s3 == StoreFieldResult(s2, field_result)
           t == [NoTurn EXCEPT
                   !.kind = "text", !.intent = 1, !.route = route,
                   !.resolved = ResolvedKeys(field_result.required_fields_object),
                   !.calls = FreshCalls(s1)]
       IN /\ FALSE \in ContinuationOutcomes(s1)
          /\ IF IsComplete(s3, req_expr)
               THEN \E rows \in BOOLEAN :
                      Done(Finalize(s3, rows),
                           [t EXCEPT !.exit = "final", !.db = 1, !.answers = 1,
                                     !.calls = @ \o FinalizeCalls])
               ELSE Done(AskField(s3, NextMissingField(s3, req_expr)),
                         [t EXCEPT !.exit = "ask",
                                   !.calls = @ \o AskCalls])

\* follow-up turn without a field name: nothing to resolve
FollowupNoField ==
  /\ session.turns < MaxTurns
  /\ Done(AppendUserMessage(session),
          [NoTurn EXCEPT !.kind = "followup", !.field = "",
                         !.exit = "no_field"])

\* follow-up turn routed to doc_qa (escape hatch)
FollowupDocQa ==
  /\ session.turns < MaxTurns
  /\ \E field \in FollowupFields(session), docs \in BOOLEAN :
       LET s1 == [AppendUserMessage(session) EXCEPT !.followup = NoFollowup,
                                                    !.last_path = "doc_qa"]
       IN Done(DocqaTurn(s1, docs),
               [NoTurn EXCEPT !.kind = "followup",
                              !.exit = "doc_qa", !.answers = 1,
                              !.calls = <<"route", "docqa">>])

\* follow-up turn whose field does not resolve: ask the same field again
FollowupReask ==
  /\ session.turns < MaxTurns
  /\ \E field \in FollowupFields(session) :
       /\ Null \in ResolveOutcomes(field)
       /\ Done(Reask(AppendUserMessage(session), field),
               [NoTurn EXCEPT !.kind = "followup", !.field = field,
                              !.exit = "reask",
                              !.calls = <<"route", "resolve", "question">>])

\* follow-up turn on "acv" with a message that is not empty:
\* resolve_field_from_message raises re.error out of the handler, behind
\* the appended user message and the routing step
FollowupRaises ==
  /\ session.turns < MaxTurns
  /\ "acv" \in FollowupFields(session)
  /\ Done(AppendUserMessage(session),
          [NoTurn EXCEPT !.kind = "followup", !.field = "acv",
                         !.exit = "raise", !.calls = <<"route", "resolve">>])

\* follow-up turn whose field resolves: store, then finalize or ask next
FollowupResolved ==
  /\ session.turns < MaxTurns
  /\ \E field \in FollowupFields(session) :
       \E value \in ResolveOutcomes(field) \ {Null} :
         LET s1 == StoreFollowupValue(AppendUserMessage(session), field, value)
             req_expr == ReqExprOf(s1.last_intent)
             missing == NextMissingField(s1, req_expr)
             t == [NoTurn EXCEPT !.kind = "followup", !.field = field,
                                 !.resolved = {field},
                                 !.calls = <<"route", "resolve">>]
         IN IF missing = Null
              THEN \E rows \in BOOLEAN :
                     Done(Finalize(s1, rows),
                          [t EXCEPT !.exit = "final", !.db = 1, !.answers = 1,
                                    !.calls = @ \o FinalizeCalls])
              ELSE Done(AskField(s1, missing),
                        [t EXCEPT !.exit = "ask",
                                  !.calls = @ \o AskCalls])

\* ------------------------------------------------------------------------
\* The turn handler over the session store (app/session.py; app/api.py,
\* turn), one step per access to the store or to the catalog.  A step is the
\* access together with everything the handler computes locally after it,
\* up to its next access; proc[p].pc names the access a worker is about to
\* make.  The local copy s of the handler and the local state of
\* add_message are part of the worker.
\* ------------------------------------------------------------------------
SessionIds == {"A", "B"}

Procs == {"p1", "p2"}

\* inp.user_message of the n-th turn
UserTexts == <<"u1", "u2", "u3", "u4", "u5">>

\* PAD[1] of _normalize_recommendations, which is also a question the
\* follow-up composer can ask for incentive_type
PadIncentiveType == "Can you confirm which incentive type applies here?"

\* what generate_followup_question can return for a field
QuestionTexts(field) ==
  IF field = "incentive_type" THEN {"Which incentive type?", PadIncentiveType}
  ELSE {"Please provide it?"}

\* final["recommendations"]: three of the classifier's own, or fewer of them
\* padded from PAD
Recommendations == {{"r1", "r2", "r3"}, {"r1", "Can you confirm the exact workload or a close variant you want to target?", PadIncentiveType}}

\* replies of the router's classifier that are not a route: llm.invoke
\* raises; text without braces; text whose braces do not hold JSON; JSON
\* that is not an object; an object without "route"; an object naming
\* another route
RouterFailures ==
  {"invoke_raises", "unparsable", "salvage_fails", "not_object", "missing",
   "other_route"}

\* _llm_route: "raise" when an exception leaves it, else the route
LlmRoute(reply) ==
  IF reply \in {"invoke_raises", "salvage_fails", "not_object"} THEN "raise"
  ELSE IF reply = "doc_qa" THEN "doc_qa"
  ELSE "incentive_lookup"

\* create_session, with the message history and the session id (None in a
\* copy no turn is working on)
NewSession ==
  [f \in DOMAIN CreateSession \cup {"messages", "session_id"} |->
     IF f = "messages" THEN <<>>
     ELSE IF f = "session_id" THEN Null
     ELSE CreateSession[f]]

\* a worker between turns
Idle ==
  [ pc |-> "idle", sid |-> Null, kind |-> "none", field |-> "",
    text |-> "", name |-> Null, s |-> NewSession, state |-> NewSession,
    route |-> "none", topic |-> "", recs |-> {},
    question |-> "",
    flow |-> "none", fault |-> "none", out |-> "none",
    given |-> Null, rid |-> Null ]

Goto(q, pc) == [q EXCEPT !.pc = pc]

\* return _make_api_response(s)
Return(q) ==
  [q EXCEPT !.pc = "done", !.out = MakeApiResponse(q.s).response_type,
            !.rid = q.s.session_id,
            !.s = NewSession, !.state = NewSession]

\* an exception leaves the handler: the caller gets an error
Abort(q, fault) ==
  [q EXCEPT !.pc = "done", !.out = "error", !.fault = fault,
            !.s = NewSession, !.state = NewSession]

\* what a client or a collaborator can give: all of it, or the plain one in
\* a run where they do not vary
Replies(all, plain) == IF limits.varied THEN all ELSE {plain}

\* a collaborator or the store can still fail in this turn: once per turn,
\* limits.faults times in all
MayFail(q) == limits.faults > 0 /\ q.fault = "none"

\* ask a field: generate_followup_question (its client is built outside its
\* try), s["followup"], then save_session
Ask(q, missing) ==
  { [q EXCEPT !.s = AskField(@, missing), !.question = text,
               !.pc = "ask_save"] :
        text \in Replies(QuestionTexts(missing), "Please provide it?") }
    \cup (IF MayFail(q) THEN {Abort(q, "question")} ELSE {})

\* follow-up turn: resolve_field_from_message, then store the value or ask
\* the same field again
Resolve(q) ==
  LET r == [q EXCEPT !.flow = "structured"]
  IN { [r EXCEPT !.s = StoreFollowupValue(@, q.field, value), !.pc = "rv_save"] :
         value \in ResolveOutcomes(q.field) \ {Null} }
       \cup { [r EXCEPT !.s = Reask(@, q.field), !.question = text,
                         !.pc = "ask_save"] :
                text \in Replies(QuestionTexts(q.field), "Please provide it?") }
       \cup (IF MayFail(q) THEN {Abort(r, "question")} ELSE {})

\* text turn: app_graph.invoke (detect_intent calls llm.invoke outside its
\* try; a malformed reply gives its fallback, topic "unknown"), then
\* get_session
Intent(q) ==
  LET r == [q EXCEPT !.flow = "structured"]
  IN {[r EXCEPT !.topic = "recommend_engagement", !.pc = "intent_get"]}
       \cup (IF MayFail(q)
               THEN {Abort(r, "intent"),
                     [r EXCEPT !.topic = "unknown", !.fault = "intent_malformed",
                               !.pc = "intent_get"]}
             ELSE {})

\* docqa_turn: a failed search is answered inside it (no documents); an
\* exception of the rerank or of the synthesis leaves it
DocQaOk(q, pc) ==
  { [q EXCEPT !.s = DocqaTurn(@, docs), !.pc = pc] :
      docs \in Replies(BOOLEAN, TRUE) }

\* text turn behind the router: the continuation check, then the cached
\* answer, or intent detection
Continuation(q) ==
  LET r == [q EXCEPT !.flow = "structured"]
  IN IF ~(q.s.last_result \/ q.s.last_docs) THEN Intent(q)
     ELSE (IF FALSE \in ContinuationOutcomes(q.s) THEN Intent(q) ELSE {})
       \cup (IF TRUE \in ContinuationOutcomes(q.s)
               THEN IF q.s.last_path = "doc_qa"
                      THEN DocQaOk(r, "cd_save")
                             \cup (IF MayFail(q) THEN {Abort(r, "docqa")} ELSE {})
                    ELSE {Goto(r, "fa_get")}
             ELSE {})
       \cup (IF MayFail(q) THEN {Abort(r, "continuation")} ELSE {})

\* the code behind the try block of the routing step
BehindRoute(q) == IF q.kind = "text" THEN Continuation(q) ELSE Resolve(q)

\* docqa_turn inside the try block of the routing step: its exception is
\* caught there
DocQaInTry(q) ==
  DocQaOk([q EXCEPT !.flow = "doc"], "dq_save")
    \cup (IF MayFail(q) THEN BehindRoute([q EXCEPT !.fault = "docqa"]) ELSE {})

\* variant: an exception of route_message leaves the handler
RouteStepUncaught(q) ==
  UNION { LET route == LlmRoute(reply)
              r == [q EXCEPT !.route = route,
                             !.fault = IF reply \in RouterFailures THEN reply ELSE @]
          IN IF route = "raise" THEN {Abort(r, reply)}
             ELSE {Goto(r, "route_save")} :
          reply \in {x \in Replies(RouterFailures \cup {"incentive_lookup", "doc_qa"},
                                    "incentive_lookup") :
                      x \in RouterFailures => MayFail(q)} }

\* route_message inside the try block; s["last_route_decision"] = r
RouteStep(q) ==
  UNION { LET route == LlmRoute(reply)
              r == [q EXCEPT !.route = route,
                             !.fault = IF reply \in RouterFailures THEN reply ELSE @]
          IN IF route = "raise" THEN BehindRoute(r)
             ELSE {Goto(r, "route_save")} :
          reply \in {x \in Replies(RouterFailures \cup {"incentive_lookup", "doc_qa"},
                                    "incentive_lookup") :
                      x \in RouterFailures => MayFail(q)} }

\* recs scrub of _run_final_answer_and_save: assistant messages whose text
\* is one of the recommendations are filtered out of the history
Scrub(messages, recs) ==
  SelectSeq(messages, LAMBDA m : ~(m.role = "assistant" /\ m.text \in recs))

\* what the handler does after the access at q.pc, up to its next access
Local(q) ==
  LET s == q.s
      req_expr == ReqExprOf(s.last_intent)
      missing == NextMissingField(s, req_expr)
      complete == [q EXCEPT !.s.followup = NoFollowup, !.pc = "fin_save"]
  IN CASE q.pc = "boot_save" -> {Goto(q, "um_get")}
       [] q.pc = "um_get" -> {Goto(q, "um_save")}
       [] q.pc = "um_save" -> {Goto(q, "got_um")}
       [] q.pc = "got_um" ->
            IF q.kind = "followup" /\ q.field = "" THEN {Goto(q, "nf_get")}
            ELSE RouteStep(q)
       [] q.pc = "nf_get" -> {Return(q)}
       [] q.pc = "route_save" -> {Goto(q, "route_get")}
       [] q.pc = "route_get" ->
            IF q.kind = "text"
              THEN {[q EXCEPT !.s.last_path = q.route, !.pc = "aq_save"]}
            ELSE IF q.route = "doc_qa"
              THEN {[q EXCEPT !.s.followup = NoFollowup,
                              !.s.last_path = "doc_qa", !.pc = "fd_save"]}
            ELSE BehindRoute(q)
       [] q.pc = "aq_save" -> {Goto(q, "aq_get")}
       [] q.pc = "aq_get" ->
            IF q.route = "doc_qa" THEN DocQaInTry(q) ELSE BehindRoute(q)
       [] q.pc = "fd_save" -> {Goto(q, "fd_get")}
       [] q.pc = "fd_get" -> DocQaInTry(q)
       [] q.pc = "dq_save" -> {Goto(q, "dq_get")}
       [] q.pc = "dq_get" -> {Return(q)}
       [] q.pc = "cd_save" -> {Goto(q, "cd_get")}
       [] q.pc = "cd_get" -> {Return(q)}
       [] q.pc = "intent_get" ->
            {[q EXCEPT !.s.last_intent = q.topic, !.pc = "intent_save"]}
       [] q.pc = "intent_save" -> {Goto(q, "intent_got")}
       [] q.pc = "intent_got" -> {Goto(q, "validate")}
       [] q.pc = "validate" -> {Goto(q, "val_save")}
       [] q.pc = "val_save" -> {Goto(q, "val_get")}
       [] q.pc = "val_get" ->
            IF IsComplete(s, req_expr) THEN {complete} ELSE Ask(q, missing)
       [] q.pc = "rv_save" -> {Goto(q, "rv_get")}
       [] q.pc = "rv_get" ->
            IF missing = Null THEN {complete} ELSE Ask(q, missing)
       [] q.pc = "fin_save" -> {Goto(q, "fin_get")}
       [] q.pc = "fin_get" ->
            { [q EXCEPT !.s = RunDbFilterAndSave(@, rows), !.pc = "db_save"] :
                rows \in Replies(BOOLEAN, TRUE) }
              \cup (IF MayFail(q) THEN {Abort(q, "catalog")} ELSE {})
       [] q.pc = "db_save" -> {Goto(q, "fa_get")}
       [] q.pc = "fa_get" ->
            { [q EXCEPT !.s = RunFinalAnswerAndSave(@), !.recs = recs,
                        !.pc = "fa_save"] :
                recs \in Replies(Recommendations, {"r1", "r2", "r3"}) }
              \cup (IF MayFail(q) THEN {Abort(q, "answer")} ELSE {})
       [] q.pc = "fa_save" -> {Goto(q, "am_get")}
       [] q.pc = "am_get" -> {Goto(q, "am_save")}
       [] q.pc = "am_save" -> {Goto(q, "sc_get")}
       [] q.pc = "sc_get" ->
            IF Scrub(s.messages, q.recs) # s.messages
              THEN {[q EXCEPT !.s.messages = Scrub(@, q.recs), !.pc = "sc_save"]}
            ELSE {Goto(q, "lp_get")}
       [] q.pc = "sc_save" -> {Goto(q, "lp_get")}
       [] q.pc = "lp_get" ->
            {[q EXCEPT !.s.last_path = "incentive_lookup", !.pc = "lp_save"]}
       [] q.pc = "lp_save" -> {Goto(q, "lp_got")}
       [] q.pc = "lp_got" -> {Return(q)}
       [] q.pc = "ask_save" -> {Goto(q, "qm_get")}
       [] q.pc = "qm_get" -> {Goto(q, "qm_save")}
       [] q.pc = "qm_save" -> {Goto(q, "ask_get")}
       [] q.pc = "ask_get" -> {Return(q)}

\* accesses of the form s = get_session(session_id) or s
ReadPcs ==
  {"got_um", "nf_get", "route_get", "aq_get", "fd_get", "dq_get", "cd_get",
   "intent_get", "intent_got", "val_get", "rv_get", "fin_get", "fa_get",
   "sc_get", "lp_get", "lp_got", "ask_get"}

\* accesses of the form save_session(session_id, s)
WritePcs ==
  {"boot_save", "route_save", "aq_save", "fd_save", "dq_save", "cd_save",
   "intent_save", "val_save", "rv_save", "fin_save", "db_save", "fa_save",
   "sc_save", "lp_save", "ask_save"}

\* accesses inside the try / except Exception: pass of the routing step
TryPcs ==
  {"route_save", "route_get", "aq_save", "aq_get", "fd_save", "fd_get",
   "dq_save", "dq_get"}

\* the access at q.pc raises: caught inside the routing step, where the
\* handler goes on behind the try block, and leaving the handler elsewhere
Failed(q, fault) ==
  IF ~MayFail(q) THEN {}
  ELSE IF q.pc \in TryPcs THEN BehindRoute([q EXCEPT !.fault = fault])
  ELSE {Abort(q, fault)}

\* worker p goes on as r; a failure that happened in the step is counted
Becomes(p, r) ==
  /\ proc' = [proc EXCEPT ![p] = r]
  /\ limits' = [limits EXCEPT !.faults =
                  IF r.fault # proc[p].fault THEN @ - 1 ELSE @]

\* variant: a session id that is not found is kept for the new session
BootstrapKeepingId(q, session_id, fresh) ==
  LET r == [q EXCEPT !.given = session_id]
  IN IF session_id # Null /\ session_id \in SessionIds /\ store[session_id] # <<>>
       THEN {[r EXCEPT !.sid = session_id, !.s = store[session_id][1],
                       !.pc = "um_get"]}
     ELSE {[r EXCEPT !.sid = IF session_id = Null THEN fresh ELSE session_id,
                     !.s.session_id = IF session_id = Null THEN fresh
                                      ELSE session_id,
                     !.pc = "boot_save"]}

\* turn(inp), session bootstrap: s = get_session(session_id) if session_id
\* else None; without s, session_id = str(uuid.uuid4()) (fresh) and s =
\* create_session(session_id, ...), saved next
Bootstrap(q, session_id, fresh) ==
  LET r == [q EXCEPT !.given = session_id]
  IN IF session_id # Null /\ session_id \in SessionIds /\ store[session_id] # <<>>
       THEN {[r EXCEPT !.sid = session_id, !.s = store[session_id][1],
                       !.pc = "um_get"]}
     ELSE {[r EXCEPT !.sid = fresh, !.s.session_id = fresh, !.pc = "boot_save"]}

\* turn(inp) is called with the id of a stored session, with an id the
\* store does not have ("expired"), or without one.  The workers are
\* alike: a request goes to the first one that is free.
StartTurn(p) ==
  /\ proc[p].pc \in {"idle", "done"}
  /\ started < MaxRuns
  /\ Cardinality({o \in Procs : proc[o].pc \notin {"idle", "done"}})
       < limits.workers
  /\ p = "p1" \/ proc["p1"].pc \notin {"idle", "done"}
  /\ started' = started + 1
  /\ \E session_id \in {sid \in SessionIds : store[sid] # <<>>}
                         \cup Replies({Null, "expired"}, Null),
        kind \in Replies({"text", "followup"}, "text"),
        field \in {"", "workload", "incentive_type"},
        name \in Replies({Null, "n2"}, Null) :
       LET fresh == {sid \in SessionIds :
                       /\ store[sid] = <<>>
                       /\ \A o \in Procs : proc[o].pc \in {"idle", "done"}
                                            \/ proc[o].sid # sid}
           q == [Idle EXCEPT !.kind = kind, !.text = UserTexts[started + 1],
                             !.field = field, !.name = name]
       IN /\ kind = "text" => field = ""
          /\ kind = "followup" => name = Null
          /\ session_id \in {Null, "expired"} => fresh # {}
          /\ \E r \in Bootstrap(q, session_id,
                                 CHOOSE sid \in fresh \cup {Null} :
                                   \/ sid = "A"
                                   \/ "A" \notin fresh /\ sid = "B"
                                   \/ fresh = {})
                       \cup (IF session_id = Null THEN {}
                             ELSE Failed([q EXCEPT !.sid = session_id,
                                                   !.given = session_id],
                                         "store_read")) :
               Becomes(p, r)
  /\ UNCHANGED <<store, incentives, catalog, session, turn, pure>>

\* s = get_session(session_id) or s
GetSession(p) ==
  LET q == proc[p]
      got == [q EXCEPT !.s = IF store[q.sid] # <<>> THEN store[q.sid][1] ELSE @]
  IN /\ q.pc \in ReadPcs
     /\ \E r \in Local(got) \cup Failed(q, "store_read") : Becomes(p, r)
     /\ UNCHANGED <<store, incentives, catalog, started, session, turn, pure>>

\* variant: a save that finds a longer history than that of the copy is
\* dropped
SaveSessionGuarded(p) ==
  LET q == proc[p]
  IN /\ q.pc \in WritePcs
     /\ \E r \in Local(q) \cup Failed(q, "store_write") :
          /\ Becomes(p, r)
          /\ store' = IF r.fault # q.fault THEN store
                      ELSE [store EXCEPT ![q.sid] =
                              IF @ # <<>> /\ Len(@[1].messages) > Len(q.s.messages)
                                THEN @ ELSE <<q.s>>]
     /\ UNCHANGED <<incentives, catalog, started, session, turn, pure>>

\* save_session(session_id, s): the stored state becomes the copy
SaveSession(p) ==
  LET q == proc[p]
  IN /\ q.pc \in WritePcs
     /\ \E r \in Local(q) \cup Failed(q, "store_write") :
          /\ Becomes(p, r)
          /\ store' = IF r.fault # q.fault THEN store
                      ELSE [store EXCEPT ![q.sid] = <<q.s>>]
     /\ UNCHANGED <<incentives, catalog, started, session, turn, pure>>

\* add_message, first half: state = get_session(session_id), ValueError if
\* there is none
AddMessageGet(p) ==
  LET q == proc[p]
  IN /\ q.pc \in {"um_get", "am_get", "qm_get"}
     /\ \E r \in (IF store[q.sid] = <<>> THEN {Abort(q, q.fault)}
                  ELSE Local([q EXCEPT !.state = store[q.sid][1]]))
                   \cup Failed(q, "store_read") :
          Becomes(p, r)
     /\ UNCHANGED <<store, incentives, catalog, started, session, turn, pure>>

\* add_message, second half: append to the state read, save_session
AddMessageSave(p) ==
  LET q == proc[p]
      message == IF q.pc = "um_save" THEN [role |-> "user", text |-> q.text]
                 ELSE IF q.pc = "am_save"
                   THEN [role |-> "assistant", text |-> "answer"]
                 ELSE [role |-> "assistant", text |-> q.question]
      state == IF q.pc = "um_save" THEN AppendUserMessage(q.state) ELSE q.state
  IN /\ q.pc \in {"um_save", "am_save", "qm_save"}
     /\ \E r \in Local([q EXCEPT !.state = NewSession])
                   \cup Failed(q, "store_write") :
          /\ Becomes(p, r)
          /\ store' = IF r.fault # q.fault THEN store
                      ELSE [store EXCEPT ![q.sid] =
                              <<[state EXCEPT !.messages = Append(@, message)]>>]
     /\ UNCHANGED <<incentives, catalog, started, session, turn, pure>>

\* field_validator_v1 of a text turn: _load_catalog fills the module-level
\* _catalog["names"] from the incentives table while it is empty (its qall
\* is not guarded); the name extractor matches against the cached names;
\* then the merge into s
Validate(p) ==
  LET q == proc[p]
      loaded == IF catalog.names = {} /\ incentives # {}
                  THEN [names |-> incentives, loaded_by |-> q.sid]
                ELSE catalog
      found == IF q.name \in loaded.names THEN q.name ELSE Null
      field_result == FieldValidatorV1(Msg(found, Null, Null, Null, Null),
                                       ReqExprOf(q.s.last_intent))
  IN /\ q.pc = "validate"
     /\ \E r \in Local([q EXCEPT !.s = StoreFieldResult(@, field_result)])
                   \cup (IF catalog.names = {} THEN Failed(q, "catalog_names")
                         ELSE {}) :
          /\ Becomes(p, r)
          /\ catalog' = IF r.fault # q.fault THEN catalog ELSE loaded
     /\ UNCHANGED <<store, incentives, started, session, turn, pure>>

\* the incentives table gets a row of another engagement
CatalogUpdate ==
  /\ "n2" \notin incentives
  /\ incentives' = incentives \cup {"n2"}
  /\ UNCHANGED <<store, proc, catalog, started, limits, session, turn, pure>>

\* the store before the first turn; the turns run one after the other, with
\* MaxFaults failures of collaborators or of the store to come
InitStore ==
  /\ store = [sid \in SessionIds |-> <<>>]
  /\ proc = [p \in Procs |-> Idle]
  /\ incentives = {"n1"}
  /\ catalog = [names |-> {}, loaded_by |-> Null]
  /\ started = 0
  /\ limits = [faults |-> MaxFaults, workers |-> 1, varied |-> TRUE]

NextStore ==
  \/ \E p \in Procs :
       \/ StartTurn(p)
       \/ GetSession(p)
       \/ SaveSession(p)
       \/ AddMessageGet(p)
       \/ AddMessageSave(p)
       \/ Validate(p)
  \/ CatalogUpdate

NoPure == [fn |-> "none"]

Init ==
  /\ session = CreateSession
  /\ turn = NoTurn
  /\ pure = NoPure
  /\ InitStore

Next ==
  \/ TextTurnDocQa
  \/ TextTurnContinuation
  \/ TextTurnFresh
  \/ FollowupNoField
  \/ FollowupDocQa
  \/ FollowupReask
  \/ FollowupResolved
  \/ FollowupRaises

Spec == Init /\ [][Next]_vars

SpecStore == Init /\ [][NextStore]_vars

\* the same handler with two workers at a time, no failures, and plain text
\* turns whose collaborators do not vary
InitRace ==
  /\ session = CreateSession
  /\ turn = NoTurn
  /\ pure = NoPure
  /\ store = [sid \in SessionIds |-> <<>>]
  /\ proc = [p \in Procs |-> Idle]
  /\ incentives = {"n1"}
  /\ catalog = [names |-> {}, loaded_by |-> Null]
  /\ started = 0
  /\ limits = [faults |-> 0, workers |-> 2, varied |-> FALSE]

SpecRace == InitRace /\ [][NextStore]_vars

\* ------------------------------------------------------------------------
\* The helpers applied to arbitrary arguments
\* ------------------------------------------------------------------------
SeqsUpTo(S, n) == UNION {[1..m -> S] : m \in 0..n}

\* Optional[List[str]] slots, and bare values
Cells ==
  {NoneCell, ScalarCell("a")} \cup {ListCell(l) : l \in SeqsUpTo({"a", "b"}, MaxList)}

\* dicts over the given keys: every order of every subset of the keys
DictsOver(keys, cells) ==
  {d \in SeqsUpTo([k : keys, v : cells], Cardinality(keys)) :
     \A i, j \in 1..Len(d) : d[i].k = d[j].k => i = j}

MergeDicts == DictsOver({"name", "country"}, Cells)

SlotCells == {NoneCell} \cup {ListCell(l) : l \in SeqsUpTo({"a"}, MaxList)}

SlotDicts == DictsOver({"name", "country", "acv"}, SlotCells)

PickedSets == {<<>>, <<"name">>, <<"acv", "name">>}

ReqExprs ==
  {<<>>, <<NameOrPair>>, <<NameOrPair, <<"country">>>>,
   <<NameOrPair, <<" ">>, <<" ", "country", " ">>, <<>>, <<"acv">>>>}

\* alternatives of a requirement expression
Alts ==
  {<<"name">>, <<"(", "workload", ",", "incentive_type", ")">>,
   <<"(", "incentive_type", ",", " ", "workload", ")">>, <<"segment">>}

\* "a | b | c"
RECURSIVE JoinAlts(_)
JoinAlts(alts) ==
  IF Len(alts) = 1 THEN Head(alts)
  ELSE Head(alts) \o <<" ", "|", " ">> \o JoinAlts(Tail(alts))

\* ------------------------------------------------------------------------
\* app/agents/docqa_agent.py: _retry_oai; app/agents/db_filter_service.py,
\* app/db.py: the catalog query
\* ------------------------------------------------------------------------
OAI_MAX_RETRIES == 3

\* what one call of the wrapped OpenAI function does: it returns, or it
\* raises RateLimitError, APIError, APITimeoutError or another exception
CallOutcomes == {"ok", "RateLimitError", "APIError", "APITimeoutError", "ValueError"}

\* except (RateLimitError, APIError, APITimeoutError)
Retryable == {"RateLimitError", "APIError", "APITimeoutError"}

\* variant: every exception is retried
RECURSIVE RetryOaiAnyError(_, _)
RetryOaiAnyError(outcomes, attempt) ==
  IF attempt > OAI_MAX_RETRIES
    THEN [calls |-> attempt - 1, sleeps |-> attempt - 1, result |-> Null]
  ELSE IF outcomes[attempt] = "ok"
    THEN [calls |-> attempt, sleeps |-> attempt - 1, result |-> "ok"]
  ELSE IF attempt = OAI_MAX_RETRIES
    THEN [calls |-> attempt, sleeps |-> attempt - 1, result |-> outcomes[attempt]]
  ELSE RetryOaiAnyError(outcomes, attempt + 1)

\* _retry_oai, from the given attempt on: outcomes[i] is what the i-th call
\* of func does; calls and sleeps are counted, result is "ok" for a return
\* of func's value, the exception's name for a raise, None when the loop
\* ends
RECURSIVE RetryOai(_, _)
RetryOai(outcomes, attempt) ==
  IF attempt > OAI_MAX_RETRIES
    THEN [calls |-> attempt - 1, sleeps |-> attempt - 1, result |-> Null]
  ELSE IF outcomes[attempt] = "ok"
    THEN [calls |-> attempt, sleeps |-> attempt - 1, result |-> "ok"]
  ELSE IF outcomes[attempt] \in Retryable
    THEN IF attempt = OAI_MAX_RETRIES
           THEN [calls |-> attempt, sleeps |-> attempt - 1,
                 result |-> outcomes[attempt]]
         ELSE RetryOai(outcomes, attempt + 1)
  ELSE [calls |-> attempt, sleeps |-> attempt - 1, result |-> outcomes[attempt]]

\* filter_incentives: one qall(sql, params), which runs one cur.execute when
\* there is a pool and none when there is not; query is what the execute
\* does; an exception of it leaves filter_incentives
FilterIncentives(pool, query) ==
  [calls |-> 1, executes |-> IF pool THEN 1 ELSE 0,
   result |-> IF ~pool THEN "empty" ELSE query]

ApplyRetryOai ==
  /\ pure.fn = "none"
  /\ \E outcomes \in [1..OAI_MAX_RETRIES + 1 -> CallOutcomes] :
       pure' = [fn |-> "retry", outcomes |-> outcomes,
                out |-> RetryOai(outcomes, 1)]
  /\ UNCHANGED <<session, turn, storeVars>>

ApplyFilterIncentives ==
  /\ pure.fn = "none"
  /\ \E pool \in BOOLEAN, query \in {"rows", "empty", "OperationalError"} :
       pure' = [fn |-> "filter", pool |-> pool, query |-> query,
                out |-> FilterIncentives(pool, query)]
  /\ UNCHANGED <<session, turn, storeVars>>

\* ------------------------------------------------------------------------
\* numeric value extractors of app/agents/field_validator_v1.py (fresh text)
\* and app/agents/field_value_resolver.py (follow-up)
\* A message is a sequence of tokens with one blank between them: a number
\* (its integer part, its fraction digits: none or one, the letters of a
\* magnitude suffix right behind it, whether " hours" follows it), the
\* context keyword "ACV", or the word "US".  Values are counted in tenths.
\* ------------------------------------------------------------------------
\* longest message, in tokens
MaxMsg == 3

NumTokens ==
  {[t |-> "num", int |-> n, frac |-> f, suf |-> s, unit |-> u] :
     n \in {8, 10}, f \in {<<>>, <<0>>, <<5>>}, s \in {"", "k", "lakh"}, u \in BOOLEAN}

\* messages: text behind a number is a suffix or a unit, not both; a number
\* is not directly followed by another number (the num pattern would read
\* "8 10" as one number)
TextMessages ==
  {m \in SeqsUpTo(NumTokens \cup {[t |-> "ctx"], [t |-> "word"]}, MaxMsg) :
     /\ \A i \in 1..Len(m) : m[i].t = "num" /\ m[i].unit => m[i].suf = ""
     /\ \A i \in 1..(Len(m) - 1) : ~(m[i].t = "num" /\ m[i + 1].t = "num")}

\* group(1) / group("num"): the digits as written
RawText(tok) ==
  IF tok.frac = <<>> THEN ToString(tok.int)
  ELSE ToString(tok.int) \o "." \o ToString(tok.frac[1])

\* number of characters of the token
TokLen(tok) ==
  IF tok.t = "ctx" THEN 3
  ELSE IF tok.t = "word" THEN 2
  ELSE (IF tok.int < 10 THEN 1 ELSE 2) + (IF tok.frac = <<>> THEN 0 ELSE 2)
         + (IF tok.suf = "k" THEN 1 ELSE IF tok.suf = "lakh" THEN 4 ELSE 0)
         + (IF tok.unit THEN 6 ELSE 0)

\* m.start() of the match at token i
RECURSIVE StartOf(_, _)
StartOf(msg, i) ==
  IF i = 1 THEN 0 ELSE StartOf(msg, i - 1) + TokLen(msg[i - 1]) + 1

\* _SUFFIX_MULT[suf] for the suffix the alternation k|m|bn|b|l|lac|lakh|cr|
\* crore captures: "l" of "lakh"
SuffixMult(suf) ==
  IF suf = "k" THEN 1000 ELSE IF suf = "lakh" THEN 100000 ELSE 1

\* _normalize_number_str(x), x in tenths
NormalizeNumberStr(x) ==
  IF x % 10 = 0 THEN ToString(x \div 10)
  ELSE ToString(x \div 10) \o "." \o ToString(x % 10)

\* the suffix group of the pattern of field_validator_v1, in pieces
ValidatorSufGroup == <<"(?P", "<", "suf", ">", "k|m|bn|b|l|lac|lakh|cr|crore", ")">>

\* the suffix group of the pattern of field_value_resolver: the literal
\* "(?P{suf}suf|k|m|b|l|lac|lakh|cr|crore)" after .replace("{suf}", "")
ResolverSufGroup ==
  SelectSeq(<<"(?P", "{suf}", "suf", "|", "k|m|b|l|lac|lakh|cr|crore", ")">>,
            LAMBDA x : x # "{suf}")

\* re.compile accepts the group: "(?P" opens a named group "(?P<name>" or
\* a reference "(?P=name)", anything else is re.error (unknown extension)
Compiles(group) ==
  \A i \in 1..Len(group) :
    group[i] = "(?P" => i < Len(group) /\ group[i + 1] \in {"<", "="}

\* _extract_acv_value with the given suffix group in its pattern: None for
\* an empty message; re.compile; the hits (value, start); the hit nearest
\* a context keyword, the larger value first among equally near ones, or
\* the largest hit when there is no keyword
ExtractAcvValue(group, msg) ==
  LET hits == {i \in 1..Len(msg) : msg[i].t = "num"}
      ctx_pos == {StartOf(msg, i) : i \in {j \in 1..Len(msg) : msg[j].t = "ctx"}}
      val(i) == (msg[i].int * 10 + (IF msg[i].frac = <<>> THEN 0 ELSE msg[i].frac[1]))
                  * SuffixMult(msg[i].suf)
      abs(d) == IF d < 0 THEN 0 - d ELSE d
      dist(i) == CHOOSE d \in {abs(StartOf(msg, i) - cp) : cp \in ctx_pos} :
                   \A cp \in ctx_pos : d <= abs(StartOf(msg, i) - cp)
      first == CHOOSE i \in hits :
                 \A j \in hits : \/ dist(i) < dist(j)
                                 \/ dist(i) = dist(j) /\ val(i) >= val(j)
  IN IF msg = <<>> THEN Null
     ELSE IF ~Compiles(group) THEN "re.error"
     ELSE IF hits = {} THEN Null
     ELSE IF ctx_pos # {} THEN NormalizeNumberStr(val(first))
     ELSE NormalizeNumberStr(CHOOSE v \in {val(i) : i \in hits} :
                               \A i \in hits : val(i) <= v)

\* _extract_hours_value of field_validator_v1: the last number with a unit,
\* else the first number of the message, as str(int(f)) or str(f)
ValidatorHours(msg) ==
  LET nums == {i \in 1..Len(msg) : msg[i].t = "num"}
      units == {i \in nums : msg[i].unit}
      norm(tok) == IF tok.frac \in {<<>>, <<0>>} THEN ToString(tok.int) ELSE RawText(tok)
  IN IF units # {} THEN norm(msg[CHOOSE i \in units : \A j \in units : j <= i])
     ELSE IF nums # {} THEN norm(msg[CHOOSE i \in nums : \A j \in nums : i <= j])
     ELSE Null

\* _extract_hours_value of field_value_resolver: group(1) of the last
\* number with a unit, as written
ResolverHours(msg) ==
  LET units == {i \in 1..Len(msg) : msg[i].t = "num" /\ msg[i].unit}
  IN IF units # {} THEN RawText(msg[CHOOSE i \in units : \A j \in units : j <= i])
     ELSE Null

\* field_validator_v1 step 1 (acv_val, hours_val) and resolve_field_from_
\* message for "acv" and "hours", on one message
ApplyExtractors ==
  /\ pure.fn = "none"
  /\ \E msg \in TextMessages :
       pure' = [fn |-> "extract", msg |-> msg,
                acv_val |-> ExtractAcvValue(ValidatorSufGroup, msg),
                hours_val |-> ValidatorHours(msg),
                acv |-> ExtractAcvValue(ResolverSufGroup, msg),
                hours |-> ResolverHours(msg)]
  /\ UNCHANGED <<session, turn, storeVars>>

\* ------------------------------------------------------------------------
\* app/agents/field_value_resolver.py: country
\* ------------------------------------------------------------------------
\* pycountry.countries, two of its entries: English short name and codes
Countries ==
  {[name |-> "United States", alpha_2 |-> "US", alpha_3 |-> "USA"],
   [name |-> "United Kingdom", alpha_2 |-> "GB", alpha_3 |-> "GBR"]}

\* what the classifier's "country" can be: names and codes of the list in
\* several spellings, a constituent nation, blocs, a code of no entry
Proposals ==
  {"United States", "united states", "US", "us", "USA", "United Kingdom",
   "gb", "GBR", "England", "EU", "EMEA", "UK"}

\* str.lower() of a proposal or of a name or code of the list
LowerCountry(v) ==
  CASE v \in {"United States", "united states"} -> "united states"
    [] v \in {"US", "us"} -> "us"
    [] v = "USA" -> "usa"
    [] v = "United Kingdom" -> "united kingdom"
    [] v \in {"GB", "gb"} -> "gb"
    [] v = "GBR" -> "gbr"
    [] v = "England" -> "england"
    [] v = "EU" -> "eu"
    [] v = "EMEA" -> "emea"
    [] v = "UK" -> "uk"

\* replies of llm.invoke(msgs) in _extract_country_with_llm: it raises; the
\* content is not JSON; JSON that is not an object; {"country": null};
\* {"country": 3}; {"country": "  "}; {"country": text}, blanks around it
CountryReplies ==
  {[kind |-> k, text |-> ""] :
     k \in {"raises", "not_json", "not_object", "null", "number", "blank"}}
    \cup {[kind |-> "text", text |-> v] : v \in Proposals}
    \cup {[kind |-> "padded", text |-> v] : v \in Proposals}

\* _extract_country_with_llm: c.strip() of a non-blank string, None for
\* anything else and for every exception
ExtractCountryWithLlm(reply) ==
  IF reply.kind \in {"text", "padded"} THEN reply.text ELSE Null

\* variant: the proposal is returned as the classifier wrote it
ValidateCountryIsoAsWritten(value) ==
  IF value = Null THEN Null
  ELSE IF \E c \in Countries :
            LowerCountry(value)
              \in {LowerCountry(c.name), LowerCountry(c.alpha_2), LowerCountry(c.alpha_3)}
    THEN value
  ELSE Null

\* _validate_country_iso: countries.lookup (case-insensitive, over names and
\* codes), then get(alpha_2=v.upper()) for two letters and
\* get(alpha_3=v.upper()) for three; the entry's name, or None
ValidateCountryIso(value) ==
  LET found == {c \in Countries :
                  LowerCountry(value)
                    \in {LowerCountry(c.name), LowerCountry(c.alpha_2),
                         LowerCountry(c.alpha_3)}}
      by_code == {c \in Countries : LowerCountry(value) = LowerCountry(c.alpha_2)
                                      \/ LowerCountry(value) = LowerCountry(c.alpha_3)}
  IN IF value = Null THEN Null
     ELSE IF found # {} THEN (CHOOSE c \in found : TRUE).name
     ELSE IF by_code # {} THEN (CHOOSE c \in by_code : TRUE).name
     ELSE Null

\* resolve_field_from_message("country", msg), the classifier replying reply
ApplyResolveCountry ==
  /\ pure.fn = "none"
  /\ \E reply \in CountryReplies :
       pure' = [fn |-> "country", reply |-> reply,
                out |-> [field_name |-> "country",
                         value |-> ValidateCountryIso(ExtractCountryWithLlm(reply)),
                         candidates |-> <<>>]]
  /\ UNCHANGED <<session, turn, storeVars>>

\* tokens of a requirement expression
ExprTokens == {"a", "b", " ", "(", ")", ",", "|"}

\* expressions given to _parse_branch: every token sequence up to MaxExpr,
\* the expression of the intent catalog and "(a,b)" with blanks
ParseExprs ==
  SeqsUpTo(ExprTokens, MaxExpr)
    \cup {NameOrPair, <<"name", "|", "(", "workload", ",", "incentive_type", ")">>,
          <<" ", "(", " ", "a", " ", ",", " ", "b", " ", ")", " ">>,
          <<"(", "workload", ",", "incentive_type", " ", "|", " ", "name">>}

ApplyParseBranch ==
  /\ pure.fn = "none"
  /\ \E expr \in ParseExprs :
       pure' = [fn |-> "parse", expr |-> expr, out |-> ParseBranch(expr)]
  /\ UNCHANGED <<session, turn, storeVars>>

ApplyMergeRequiredFields ==
  /\ pure.fn = "none"
  /\ \E old \in MergeDicts, new \in MergeDicts :
       pure' = [fn |-> "merge", old |-> old, new |-> new,
                out |-> MergeRequiredFields(old, new)]
  /\ UNCHANGED <<session, turn, storeVars>>

ApplyNextMissingField ==
  /\ pure.fn = "none"
  /\ \E picked \in PickedSets, req_expr \in ReqExprs, rf \in SlotDicts :
       pure' = [fn |-> "next_missing", picked_set |-> picked,
                req_expr |-> req_expr, required_fields |-> rf,
                out |-> NextMissingField([picked_set |-> picked,
                                          required_fields |-> rf], req_expr)]
  /\ UNCHANGED <<session, turn, storeVars>>

ApplyChooseBranch ==
  /\ pure.fn = "none"
  /\ \E alts \in SeqsUpTo(Alts, MaxBranches) \ {<<>>},
        name_val \in {Null, "n1"}, workload_val \in {Null, "w1"},
        inc_type \in {Null, "pre_sales"} :
       LET branches == ParseBranch(JoinAlts(alts))
       IN pure' = [fn |-> "choose", alts |-> alts, branches |-> branches,
                   name_val |-> name_val, workload_val |-> workload_val,
                   inc_type |-> inc_type,
                   picked |-> ChooseBranch(branches, name_val, workload_val,
                                           inc_type)]
  /\ UNCHANGED <<session, turn, storeVars>>

\* a question of n words w
LongQuestion(n) == [i \in 1..n |-> "w"] \o <<"?">>

\* what the classifier returns for a question: a failed call, no text, or
\* one of a few texts, among them ones longer than the word cap
LlmQuestions ==
  { [ok |-> FALSE, question |-> <<>>], [ok |-> TRUE, question |-> <<>>] }
    \cup { [ok |-> TRUE, question |-> q] :
             q \in { <<"Which", "workload", "?">>,
                      <<"which", "workload">>,
                      <<"'", "Which", "incentive_type", "?", "'">>,
                      <<"Can", "you", "share", "the", "workload", "?">>,
                      <<"I", "can", "help", "which", "workload", "?">>,
                      <<"Please", "provide", "workload", "?">>,
                      LongQuestion(WordCap), LongQuestion(WordCap + 1),
                      <<"Please">> \o LongQuestion(WordCap),
                      <<"Kindly">> \o LongQuestion(WordCap + 1) } }

\* the question asked for a field, then the question of the re-ask, whose
\* last_question_text is the first one
ApplyGenerateFollowupQuestion ==
  /\ pure.fn = "none"
  /\ \E field \in {"workload", "incentive_type", "segment"},
        first \in LlmQuestions, second \in LlmQuestions :
       LET last == GenerateFollowupQuestion(field, first, <<>>)
       IN pure' = [fn |-> "question", field |-> field, last |-> last,
                   llm |-> second,
                   out |-> GenerateFollowupQuestion(field, second, last)]
  /\ UNCHANGED <<session, turn, storeVars>>

\* messages of a text turn given to the continuation check
UserMessages ==
  { <<"w", "h", "a", "t", " ", "a", "b", "o", "u", "t", " ", "t", "h", "e", " ", "a", "c", "t", "i", "v", "i", "t", "y", " ", "r", "e", "q", "u", "i", "r", "e", "m", "e", "n", "t", "s">>,
    <<"c", "o", "m", "p", "a", "r", "e", " ", "w", "i", "t", "h", " ", "C", "R", "M", " ", "i", "n", "s", "t", "e", "a", "d">>,
    <<"w", "h", "a", "t", " ", "a", "b", "o", "u", "t", " ", "p", "r", "i", "c", "i", "n", "g">>,
    <<"s", "h", "o", "w", " ", "t", "h", "a", "t", " ", "f", "o", "r", " ", "C", "R", "M">>,
    <<"h", "e", "l", "l", "o">>,
    <<"S", "t", "a", "r", "t", " ", " ", "o", "v", "e", "r", " ", "w", "i", "t", "h", " ", "t", "h", "i", "s">>,
    <<"l", "i", "m", "i", "t", "s">>,
    <<"E", "R", "P", " ", "m", "o", "d", "u", "l", "e", "s", " ", "&", " ", "g", "o", "a", "l", "s">>,
    <<>>,
    <<"c", "o", "m", "p", "a", "r", "e", "d">>,
    <<"C", "R", "M", " ", "v", "s", ".", " ", "E", "R", "P">>,
    <<"f", "i", "n", "a", "n", "c", "e">> }

\* cached results: none, or rows of one engagement family
ErpWorkshop ==
  <<"E", "R", "P", " ", "E", "n", "v", "i", "s", "i", "o", "n", "i", "n",
  "g", " ", "W", "o", "r", "k", "s", "h", "o", "p">>

CrmWorkshop ==
  <<"C", "R", "M", " ", "E", "n", "v", "i", "s", "i", "o", "n", "i", "n",
  "g", " ", "W", "o", "r", "k", "s", "h", "o", "p">>

LastResults == {<<>>, <<ErpWorkshop>>, <<CrmWorkshop>>, <<ErpWorkshop, CrmWorkshop>>}

ApplyDetectContinuation ==
  /\ pure.fn = "none"
  /\ \E user_message \in UserMessages, last_result \in LastResults,
        llm \in ClassifierOutcomes :
       LET r == DetectContinuation(user_message, last_result, llm)
       IN pure' = [fn |-> "continuation", user_message |-> user_message,
                   last_result |-> last_result, llm |-> llm,
                   h |-> r.h, classifier |-> r.classifier, out |-> r.out]
  /\ UNCHANGED <<session, turn, storeVars>>

\* canonical workload values and the scores the matchers give them: around
\* the bands 80 and 90, five and six points apart, and a synonym score
WorkloadNames == <<"X", "Y", "Z", "V4", "V5", "V6", "V7", "V8", "V9">>

HitScores == {79, 80, 83, 84, 89, 91, 92, 96}

\* syn_hits + fuzzy: up to MaxHits hits over three values, any order, a value
\* possibly hit twice
ShortHits ==
  SeqsUpTo([value : {"X", "Y", "Z"}, score : HitScores], MaxHits)

\* many values hit at once: the first n workloads, the first at score top,
\* the second at score second, the others at score rest
ManyHits ==
  { [i \in 1..n |->
       [value |-> WorkloadNames[i],
        score |-> IF i = 1 THEN top ELSE IF i = 2 THEN second ELSE rest]] :
      n \in 6..Len(WorkloadNames), top \in {79, 89, 96},
      second \in {79, 83}, rest \in {60, 79, 80} }

ApplyResolveWorkload ==
  /\ pure.fn = "none"
  /\ \E pairs \in ShortHits \cup ManyHits :
       pure' = [fn |-> "resolve_workload", pairs |-> pairs,
                out |-> ResolveWorkload(pairs),
                validator |-> ResolveWithSynsAndFuzzy(pairs, 85)]
  /\ UNCHANGED <<session, turn, storeVars>>

NextPure ==
  \/ ApplyMergeRequiredFields
  \/ ApplyNextMissingField
  \/ ApplyChooseBranch
  \/ ApplyGenerateFollowupQuestion
  \/ ApplyDetectContinuation
  \/ ApplyResolveWorkload
  \/ ApplyParseBranch
  \/ ApplyResolveCountry
  \/ ApplyExtractors
  \/ ApplyRetryOai
  \/ ApplyFilterIncentives

SpecPure == Init /\ [][NextPure]_vars

\* ------------------------------------------------------------------------
\* Properties
\* ------------------------------------------------------------------------
AllFields ==
  {"name", "workload", "incentive_type", "country", "acv", "hours", "segment"}

\* the response the last turn returned
Response == MakeApiResponse(session)

\* the slot of field k holds exactly one value
Single(rf, k) == DictGet(rf, k).t = "list" /\ Len(DictGet(rf, k).items) = 1

\* the fields the completion predicate ranges over
ActiveFields(s) == s.picked_set \o TrailingFromRule(ReqExprOf(s.last_intent))

AllActiveResolved(s) ==
  \A i \in 1..Len(ActiveFields(s)) : Single(s.required_fields, ActiveFields(s)[i])

\* C1: a turn that reaches the completion check queries the catalog,
\* synthesises the answer and responds final_answer if and only if every
\* field of picked_set and trailing holds exactly one value, whatever other
\* keys required_fields tracks, on the text path and the follow-up path alike
\* (stated for sessions whose requirement names at least one field).
C1_CompletionIffActiveResolved ==
  (turn.exit \in {"final", "ask"} /\ ActiveFields(session) # <<>>) =>
    ((turn.db = 1 /\ turn.answers = 1 /\ Response.response_type = "final_answer")
       <=> AllActiveResolved(session))

\* C2: merging a resolution whose value for k is None, an empty list or a
\* list of several values over a slot that holds exactly one value leaves the
\* slot with that value.
C2_NonErasure ==
  pure.fn = "merge" =>
    \A k \in {"name", "country"} :
      LET new_v == ListOrNone(DictGet(pure.new, k))
      IN (Single(pure.old, k) /\ DictHas(pure.new, k)
          /\ (new_v.t = "none" \/ Len(new_v.items) # 1))
           => DictGet(pure.out, k) = DictGet(pure.old, k)

\* C3: over any turn a slot that holds exactly one value still holds exactly
\* one value afterwards, and the value differs only if the turn's own
\* resolution for that field was non-empty.
C3_ResolvedStaysResolved ==
  [][\A k \in AllFields :
       Single(session.required_fields, k) =>
         /\ Single(session'.required_fields, k)
         /\ (DictGet(session'.required_fields, k) # DictGet(session.required_fields, k)
               => k \in turn'.resolved)]_vars

\* a resolved name survived a fresh-text turn that did not resolve name
C3_Witness ==
  /\ turn.kind = "text"
  /\ turn.intent = 1
  /\ "name" \notin turn.resolved
  /\ Single(session.required_fields, "name")

Unresolved(rf, f) ==
  DictGet(rf, f).t = "none" \/ Len(DictGet(rf, f).items) # 1

\* the first element of seq that is unresolved in rf, Null if there is none
FirstUnresolved(seq, rf) ==
  IF \E i \in 1..Len(seq) : Unresolved(rf, seq[i])
    THEN seq[CHOOSE i \in 1..Len(seq) :
               /\ Unresolved(rf, seq[i])
               /\ \A j \in 1..(i - 1) : ~Unresolved(rf, seq[j])]
    ELSE Null

PureOrder == pure.picked_set \o TrailingFromRule(pure.req_expr)

\* C4: _next_missing_field returns the first unresolved field of picked_set
\* followed by the trailing fields; if there is none, the first unresolved
\* key of required_fields in insertion order; if there is none, null.
C4_NextMissingField ==
  pure.fn = "next_missing" =>
    pure.out =
      (IF FirstUnresolved(PureOrder, pure.required_fields) # Null
         THEN FirstUnresolved(PureOrder, pure.required_fields)
         ELSE FirstUnresolved(DictKeys(pure.required_fields), pure.required_fields))

\* the fallback sweep found a key outside picked_set and trailing
C4_Witness ==
  /\ pure.fn = "next_missing"
  /\ PureOrder # <<>>
  /\ FirstUnresolved(PureOrder, pure.required_fields) = Null
  /\ pure.out # Null
  /\ ~InSeq(pure.out, PureOrder)

\* scenario 1: the session is asking for the i-th trailing field of the
\* workshop-payout requirement, with name and the earlier ones resolved
Scenario1Trailing == <<"country", "acv", "hours">>

Scenario1Asking(s, i) ==
  /\ s.last_intent = "calc_presales_workshop_payout"
  /\ s.picked_set = <<"name">>
  /\ DictKeys(s.required_fields) = <<"name">> \o Scenario1Trailing
  /\ Single(s.required_fields, "name")
  /\ \A j \in 1..3 :
       IF j < i THEN Single(s.required_fields, Scenario1Trailing[j])
       ELSE DictGet(s.required_fields, Scenario1Trailing[j]) = NoneCell
  /\ s.followup = Followup(Scenario1Trailing[i])
  /\ MakeApiResponse(s).response_type = "follow_up"
  /\ MakeApiResponse(s).field_name = Scenario1Trailing[i]

\* what holds of scenario 1: a text turn on a fresh session that detects the
\* workshop-payout intent and resolves only name picks [name] and asks for
\* country; a follow-up that resolves the asked field asks for the next of
\* country, acv, hours, and one resolving hours returns final_answer
Scenario1Chain ==
  /\ (/\ session = CreateSession
      /\ turn'.kind = "text" /\ turn'.intent = 1
      /\ session'.last_intent = "calc_presales_workshop_payout"
      /\ turn'.resolved = {"name"})
       => Scenario1Asking(session', 1)
  /\ \A i \in 1..3 :
       (/\ Scenario1Asking(session, i)
        /\ turn'.kind = "followup"
        /\ turn'.field = Scenario1Trailing[i]
        /\ turn'.resolved = {Scenario1Trailing[i]})
         => IF i < 3
              THEN Scenario1Asking(session', i + 1)
              ELSE /\ turn'.exit = "final"
                   /\ MakeApiResponse(session').response_type = "final_answer"
                   /\ AllActiveResolved(session')

C5_Scenario1Steps == [][Scenario1Chain]_vars

\* C5: on a fresh session, a text turn detecting the workshop-payout intent
\* and resolving only name picks [name] and asks for country; the follow-ups
\* that name the asked field go through country, acv and hours in that
\* order, none of them failing in the handler, each one that resolves its
\* field asking for the next, and the one resolving hours returns
\* final_answer.
C5_Scenario1 ==
  [][/\ Scenario1Chain
     /\ \A i \in 1..3 :
          (/\ Scenario1Asking(session, i)
           /\ turn'.kind = "followup"
           /\ turn'.field = Scenario1Trailing[i])
            => turn'.exit # "raise"]_vars

PureHasNameBranch ==
  \E i \in 1..Len(pure.branches) : pure.branches[i] = <<"name">>

IsPair(b) == Len(b) = 2 /\ {b[1], b[2]} = {"workload", "incentive_type"}

PureHasPairBranch == \E i \in 1..Len(pure.branches) : IsPair(pure.branches[i])

Orders(n) ==
  {p \in [1..n -> 1..n] : \A i, j \in 1..n : p[i] = p[j] => i = j}

\* the pick for the same alternatives declared in the order p
PickReordered(p) ==
  ChooseBranch(ParseBranch(JoinAlts([i \in 1..Len(pure.alts) |-> pure.alts[p[i]]])),
               pure.name_val, pure.workload_val, pure.inc_type)

\* C6: with a [name] branch declared and name resolved the pick is [name],
\* also when workload and incentive_type are resolved; with name unresolved
\* and a declared pair branch whose two fields are resolved the pick is the
\* pair; in both cases every declaration order gives the same pick.
C6_BranchPriority ==
  pure.fn = "choose" =>
    /\ (PureHasNameBranch /\ pure.name_val # Null)
         => /\ pure.picked = <<"name">>
            /\ \A p \in Orders(Len(pure.alts)) : PickReordered(p) = pure.picked
    /\ (pure.name_val = Null /\ PureHasPairBranch
        /\ pure.workload_val # Null /\ pure.inc_type # Null)
         => /\ IsPair(pure.picked)
            /\ \A p \in Orders(Len(pure.alts)) : PickReordered(p) = pure.picked

\* everything resolved, the pair declared before [name]: [name] is picked
C6_Witness ==
  /\ pure.fn = "choose"
  /\ PureHasNameBranch /\ PureHasPairBranch
  /\ IsPair(pure.branches[1])
  /\ pure.name_val # Null /\ pure.workload_val # Null /\ pure.inc_type # Null
  /\ pure.picked = <<"name">>

\* C7: if a pair branch is declared and the message resolves none of name,
\* workload and incentive_type, the pair is picked, with or without a [name]
\* branch and wherever the pair is declared.
C7_DefaultPair ==
  pure.fn = "choose" =>
    ((PureHasPairBranch /\ pure.name_val = Null
      /\ pure.workload_val = Null /\ pure.inc_type = Null)
       => IsPair(pure.picked))

PureExactlyOne == (pure.workload_val # Null) # (pure.inc_type # Null)

\* C8 as stated: with name unresolved and exactly one of workload and
\* incentive_type resolved, the first declared branch is picked.
C8_FirstDeclared ==
  pure.fn = "choose" =>
    ((pure.name_val = Null /\ PureExactlyOne) => pure.picked = pure.branches[1])

\* C8 as amended: with name unresolved and exactly one of workload and
\* incentive_type resolved, the pair is picked when both a [name] branch and a
\* pair branch are declared, and the first declared branch otherwise.
C8_FallbackFirstDeclared ==
  pure.fn = "choose" =>
    ((pure.name_val = Null /\ PureExactlyOne) =>
       IF PureHasNameBranch /\ PureHasPairBranch
         THEN pure.picked = <<"workload", "incentive_type">>
         ELSE pure.picked = pure.branches[1])

\* only workload resolved, [name] declared first and the pair after it: the
\* pair is picked, not the first declared branch
C8_Witness ==
  /\ pure.fn = "choose"
  /\ pure.name_val = Null /\ PureExactlyOne
  /\ pure.branches[1] = <<"name">> /\ PureHasPairBranch
  /\ IsPair(pure.picked)

\* C9: a follow-up turn leaves picked_set and last_intent as they were.
C9_FollowupKeepsBranch ==
  [][turn'.kind = "followup" =>
       /\ session'.picked_set = session.picked_set
       /\ session'.last_intent = session.last_intent]_vars

\* a follow-up resolved a field outside the active branch
C9_Witness ==
  /\ turn.kind = "followup"
  /\ turn.resolved # {}
  /\ session.picked_set # <<>>
  /\ ~InSeq(turn.field, ActiveFields(session))

\* C10: a follow-up turn naming f changes required_fields at most at key f,
\* which then holds a single value; if nothing resolved, required_fields is
\* unchanged.
C10_FollowupTouchesOnlyField ==
  [][turn'.kind = "followup" =>
       /\ \A k \in AllFields \ {turn'.field} :
            /\ DictHas(session'.required_fields, k) = DictHas(session.required_fields, k)
            /\ DictGet(session'.required_fields, k) = DictGet(session.required_fields, k)
       /\ turn'.resolved = {} => session'.required_fields = session.required_fields
       /\ turn'.resolved # {} =>
            /\ turn'.resolved = {turn'.field}
            /\ Single(session'.required_fields, turn'.field)
            /\ DictGet(session'.required_fields, turn'.field).items[1]
                 \in Values(turn'.field)]_vars

\* a follow-up resolved its field in a session that tracks other fields
C10_Witness ==
  /\ turn.kind = "followup"
  /\ turn.resolved = {turn.field}
  /\ Len(session.required_fields) >= 3
  /\ \E k \in AllFields \ {turn.field} : Single(session.required_fields, k)

C12_ReaskDiffers ==
  pure.fn = "question" => LowerText(pure.out) # LowerText(pure.last)

\* the exits of a turn that generate and store a follow-up question
AskExits == {"ask", "reask"}

\* C13: when a turn ends by asking a follow-up question, no final_answer of
\* an earlier turn is left in the session, and the stored followup names the
\* field the question was generated for.
C13_AskClearsFinalAnswer ==
  turn.exit \in AskExits =>
    /\ session.final_answer = Null
    /\ session.followup.set
    /\ turn.exit = "reask" => session.followup.field_name = turn.field

\* how often a turn called a collaborator
CallCount(t, c) == Cardinality({i \in 1..Len(t.calls) : t.calls[i] = c})

C15_ExactlyOnePopulated ==
  turn.kind # "none" =>
    /\ (Response.field_name # Null) # (Response.text # Null)
    /\ Response.response_type = "follow_up" <=> Response.field_name # Null
    /\ Response.response_type = "final_answer" <=> Response.text # Null

\* every call of c in the turn's call order comes before every call of d
CalledBefore(t, c, d) ==
  \A i, j \in 1..Len(t.calls) :
    (t.calls[i] = c /\ t.calls[j] = d) => i < j

C17_ContinuationAnswersFromCache ==
  [][turn'.exit \in {"continuation", "continuation_doc"} =>
       /\ \A c \in {"intent", "validator", "resolve", "db"} :
            CallCount(turn', c) = 0
       /\ session'.required_fields = session.required_fields
       /\ session'.picked_set = session.picked_set
       /\ session'.last_intent = session.last_intent
       /\ session'.last_result = session.last_result
       /\ CallCount(turn', "answer") = 1
       /\ CallCount(turn', "docqa") = 0
       /\ MakeApiResponse(session').response_type = "final_answer"
       /\ MakeApiResponse(session').text = "incentive"]_vars

\* the part of C17 about what the turn does not call and does not change
C17_ContinuationFrame ==
  [][turn'.exit \in {"continuation", "continuation_doc"} =>
       /\ \A c \in {"intent", "validator", "resolve", "db"} :
            CallCount(turn', c) = 0
       /\ session'.required_fields = session.required_fields
       /\ session'.picked_set = session.picked_set
       /\ session'.last_intent = session.last_intent
       /\ session'.last_result = session.last_result]_vars

\* the message matches a reset pattern
MatchesResetPattern(msg) ==
  \E pat \in ResetPatterns : WordOccurs(pat, CleanText(msg))

\* end-to-end scenario 4
CompareWithCrmInstead ==
  <<"c", "o", "m", "p", "a", "r", "e", " ", "w", "i", "t", "h", " ",
    "C", "R", "M", " ", "i", "n", "s", "t", "e", "a", "d">>

\* C18: the heuristic answers false when last_result is empty, and answers
\* false when the message matches a reset pattern, whatever hints and
\* families the message holds; in both cases the classifier is not called
\* and the turn is no continuation.  Cached "ERP Envisioning Workshop" with
\* "compare with CRM instead" gives false.
C18_ResetPrecedence ==
  pure.fn = "continuation" =>
    /\ (pure.last_result = <<>> \/ MatchesResetPattern(pure.user_message)) =>
         /\ pure.h = "false"
         /\ ~pure.classifier
         /\ pure.out = "false"
    /\ (pure.user_message = CompareWithCrmInstead
        /\ pure.last_result = <<ErpWorkshop>>) => pure.h = "false"

\* a reset pattern beside an anaphoric hint, with a cached result
C18_Witness ==
  /\ pure.fn = "continuation"
  /\ pure.last_result # <<>>
  /\ MatchesResetPattern(pure.user_message)
  /\ \E h \in AnaphoraHints : Occurs(h, CleanText(pure.user_message))
  /\ ~MentionsDifferentFamily(pure.user_message, pure.last_result)
  /\ pure.h = "false"

\* the message names a family: one of the family's terms stands in it as a
\* word or phrase of its own
NamesFamily(text, family) ==
  \E kw \in NameFamilySyns[family] : WordOccurs(CleanText(kw), CleanText(text))

\* the message names a family that no cached item name names
NamesAbsentFamily(msg, last_names) ==
  \E fam \in DOMAIN NameFamilySyns :
    NamesFamily(msg, fam) /\ ~NamesFamily(JoinNames(last_names), fam)

\* the message contains an anaphoric reference or a detail keyword
ContainsHint(msg) ==
  \E h \in AnaphoraHints \cup DetailHints : WordOccurs(h, CleanText(msg))

\* C19: with a cached result and no reset pattern, the heuristic answers
\* false if the message names a family absent from the cached item names
\* (even beside a hint); otherwise true exactly if the message contains an
\* anaphoric reference or a detail keyword, and is inconclusive for every
\* other message.
C19_FamilyThenHints ==
  (/\ pure.fn = "continuation"
   /\ pure.last_result # <<>>
   /\ ~MatchesResetPattern(pure.user_message)) =>
    pure.h = (IF NamesAbsentFamily(pure.user_message, pure.last_result)
                THEN "false"
              ELSE IF ContainsHint(pure.user_message) THEN "true"
              ELSE "none")

\* end-to-end scenario 3
WhatAboutTheActivityRequirements ==
  <<"w", "h", "a", "t", " ", "a", "b", "o", "u", "t", " ", "t", "h", "e", " ",
    "a", "c", "t", "i", "v", "i", "t", "y", " ",
    "r", "e", "q", "u", "i", "r", "e", "m", "e", "n", "t", "s">>

\* the example of C19 alone
C19_Scenario3 ==
  (/\ pure.fn = "continuation"
   /\ pure.user_message = WhatAboutTheActivityRequirements
   /\ pure.last_result = <<ErpWorkshop>>) => pure.h = "true"

\* C20: detect_continuation reaches the classifier only when the heuristic is
\* inconclusive; a failed classifier call or an unparsable reply gives
\* is_continuation = false; and no exception leaves detect_continuation.
C20_ClassifierFailsSafe ==
  pure.fn = "continuation" =>
    /\ pure.classifier => pure.h = "none"
    /\ (pure.h = "none"
        /\ pure.llm \in {"invoke_raises", "unparsable", "not_object"}) =>
         pure.out = "false"
    /\ pure.out # "raised"

\* the part of C20 about a classifier that was constructed
C20_InvokeFailsSafe ==
  (pure.fn = "continuation" /\ pure.llm # "no_client") =>
    /\ pure.classifier <=> pure.h = "none"
    /\ (pure.h = "none"
        /\ pure.llm \in {"invoke_raises", "unparsable", "not_object"}) =>
         pure.out = "false"
    /\ pure.out # "raised"

\* ------------------------------------------------------------------------
\* Workload resolution (C25, C26)
\* ------------------------------------------------------------------------
HitValues(pairs) == {pairs[i].value : i \in 1..Len(pairs)}

\* the highest score a value has among the hits
MaxScoreOf(pairs, v) ==
  CHOOSE sc \in {pairs[i].score : i \in {j \in 1..Len(pairs) : pairs[j].value = v}} :
    \A i \in 1..Len(pairs) : pairs[i].value = v => pairs[i].score <= sc

TopScore(pairs) ==
  CHOOSE sc \in {pairs[i].score : i \in 1..Len(pairs)} :
    \A i \in 1..Len(pairs) : pairs[i].score <= sc

\* a second value scores within 5 points of the best one
NearTied(pairs) ==
  \E v, w \in HitValues(pairs) :
    /\ v # w
    /\ MaxScoreOf(pairs, v) = TopScore(pairs)
    /\ TopScore(pairs) - MaxScoreOf(pairs, w) <= 5

\* the values of a candidate list
CandidateValues(cands) == {cands[i].value : i \in 1..Len(cands)}

\* C25: in workload resolution, whenever a second value scores within 5
\* points of the top candidate the result is ambiguous, whatever the top
\* score: the value is null and the tied values are among the candidates.
C25_NearTieIsAmbiguous ==
  (pure.fn = "resolve_workload" /\ pure.pairs # <<>> /\ NearTied(pure.pairs)) =>
    /\ pure.out.value = Null
    /\ \A v \in HitValues(pure.pairs) :
         TopScore(pure.pairs) - MaxScoreOf(pure.pairs, v) <= 5
           => v \in CandidateValues(pure.out.candidates)

\* the near tie is honoured below the high band: a top score under 90 with
\* a second value within 5 points resolves to null
C25_NearTieBelowHighBand ==
  (/\ pure.fn = "resolve_workload" /\ pure.pairs # <<>>
   /\ NearTied(pure.pairs) /\ TopScore(pure.pairs) < 90) =>
    pure.out.value = Null

\* the values whose best score is at least 80
PlausibleValues(pairs) ==
  {v \in HitValues(pairs) : MaxScoreOf(pairs, v) >= 80}

\* C26: with a top score below 90 the value is the top candidate exactly if
\* the top score is at least 80, no other value is within 5 points of it and
\* fewer than three values score at least 80; otherwise the value is null
\* and at most five candidates come back, with distinct values, each at its
\* maximum score, in non-increasing score order.
C26_MediumBand ==
  (pure.fn = "resolve_workload") =>
    IF pure.pairs = <<>>
      THEN pure.out.value = Null /\ pure.out.candidates = <<>>
    ELSE TopScore(pure.pairs) < 90 =>
      LET pairs == pure.pairs
          cands == pure.out.candidates
          accept == /\ TopScore(pairs) >= 80
                    /\ ~NearTied(pairs)
                    /\ Cardinality(PlausibleValues(pairs)) < 3
      IN IF accept
           THEN /\ pure.out.value # Null
                /\ MaxScoreOf(pairs, pure.out.value) = TopScore(pairs)
         ELSE /\ pure.out.value = Null
              /\ Len(cands) <= 5
              /\ \A i, j \in 1..Len(cands) :
                   cands[i].value = cands[j].value => i = j
              /\ \A i \in 1..Len(cands) :
                   /\ cands[i].value \in HitValues(pairs)
                   /\ cands[i].score = MaxScoreOf(pairs, cands[i].value)
              /\ \A i \in 1..Len(cands) - 1 :
                   cands[i].score >= cands[i + 1].score

\* a top score of 89 with nothing within 5 points but three values at 80 or
\* more, and more than five values hit: null, five candidates
C26_Witness ==
  /\ pure.fn = "resolve_workload"
  /\ pure.pairs # <<>>
  /\ TopScore(pure.pairs) = 89
  /\ ~NearTied(pure.pairs)
  /\ Cardinality(HitValues(pure.pairs)) > 5
  /\ pure.out.value = Null
  /\ Len(pure.out.candidates) = 5

\* ------------------------------------------------------------------------
\* Slot keys and the active branch (C27)
\* ------------------------------------------------------------------------
SeqSet(seq) == {seq[i] : i \in 1..Len(seq)}

\* C27: in every reachable session state the keys of required_fields lie in
\* picked_set and the trailing fields of the last detected intent's
\* requirement expression, and a turn that queries the catalog filters it
\* only by fields of the active branch.
C27_KeysWithinActiveBranch ==
  /\ SeqSet(DictKeys(session.required_fields)) \subseteq SeqSet(ActiveFields(session))
  /\ turn.db = 1 =>
       SeqSet(AppliedFilters(session.required_fields))
         \subseteq SeqSet(ActiveFields(session))

\* the catalog query of a turn filters by a field outside the active branch
C27_StaleFilter ==
  ~(/\ turn.db = 1
    /\ ~(SeqSet(AppliedFilters(session.required_fields))
           \subseteq SeqSet(ActiveFields(session))))

\* ------------------------------------------------------------------------
\* Failures of collaborators and of the store (C21 - C24)
\* ------------------------------------------------------------------------
\* the turns that have returned, or have raised to the caller
Finished == {p \in Procs : proc[p].pc = "done"}

Responses == {"follow_up", "final_answer"}

C22_CatalogFailureIsEmptyResult ==
  \A p \in Finished : proc[p].fault = "catalog" => proc[p].out = "final_answer"

\* C23: a turn in which the classifier failed during intent detection
\* (exception or malformed reply), document-QA answering, question
\* composition or answer composition returns a follow_up or final_answer
\* response.
C23_CollaboratorFailureRecovered ==
  \A p \in Finished :
    proc[p].fault \in {"intent", "intent_malformed", "docqa", "question", "answer"}
      => proc[p].out \in Responses

\* a malformed reply of the intent classifier is recovered: the turn
\* returns a response
C23_MalformedIntentRecovered ==
  \A p \in Finished : proc[p].fault = "intent_malformed" => proc[p].out \in Responses

\* C24: a turn in which a session-store read or write failed has failed, and
\* the failure is what its caller got.
C24_StoreFailureSurfaced ==
  \A p \in Finished :
    proc[p].fault \in {"store_read", "store_write"} => proc[p].out = "error"

\* ------------------------------------------------------------------------
\* The message history (C28)
\* ------------------------------------------------------------------------
StoredMessages(sid) == IF store[sid] = <<>> THEN <<>> ELSE store[sid][1].messages

IsPrefixOf(a, b) == Len(a) <= Len(b) /\ SubSeq(b, 1, Len(a)) = a

\* the user messages of worker p's turn in the stored history
OwnMessages(p) ==
  SelectSeq(StoredMessages(proc[p].sid),
            LAMBDA m : m.role = "user" /\ m.text = proc[p].text)

\* C28: the message history is append-only: every step leaves the stored
\* history of every session as a prefix of the history after the step, and
\* a turn that has returned a response has appended its user message
\* exactly once.
C28_AppendOnly ==
  [][ /\ \A sid \in SessionIds : IsPrefixOf(StoredMessages(sid), StoredMessages(sid)')
      /\ \A p \in Procs :
           proc[p].pc = "done" /\ proc[p].out \in Responses
             => Len(OwnMessages(p)) = 1 ]_vars

\* the same without the save that follows the scrub of the recommendations
C28_AppendOnlyButScrub ==
  [][ (\A p \in Procs : proc[p].pc # "sc_save")
        => \A sid \in SessionIds : IsPrefixOf(StoredMessages(sid), StoredMessages(sid)') ]_vars

\* ------------------------------------------------------------------------
\* Concurrent turns (C29, C30)
\* ------------------------------------------------------------------------
\* C29: two concurrent turns on one session id are not serialized: a save
\* replaces the stored state by the writer's copy whatever has been stored
\* since the copy was read, and add_message stores the state it read with
\* one more message (last write wins).
C29_LastWriteWins ==
  [][ \A p \in Procs :
        proc'[p] # proc[p] =>
          /\ proc[p].pc \in WritePcs => store'[proc[p].sid] = <<proc[p].s>>
          /\ proc[p].pc \in {"um_save", "am_save", "qm_save"} =>
               /\ Len(StoredMessages(proc[p].sid)') = Len(proc[p].state.messages) + 1
               /\ IsPrefixOf(proc[p].state.messages, StoredMessages(proc[p].sid)') ]_vars

\* two turns on the same session have both returned a response, and the
\* user message one of them appended is missing from the stored history
C29_Witness ==
  \E p, o \in Finished :
    /\ p # o
    /\ proc[p].sid = proc[o].sid
    /\ proc[p].out \in Responses /\ proc[o].out \in Responses
    /\ Len(OwnMessages(p)) = 0
    /\ Len(OwnMessages(o)) = 1

\* what the validator step of worker q's turn gives when the turn runs
\* alone: the names come from the incentives table as it is
ValidatedAlone(q) ==
  StoreFieldResult(q.s,
    FieldValidatorV1(Msg(IF q.name \in incentives THEN q.name ELSE Null,
                         Null, Null, Null, Null),
                     ReqExprOf(q.s.last_intent)))

\* C30: turns on different session ids are independent: a step of a turn
\* changes the stored state of no other session, and state left behind by
\* a turn of another session does not influence what a turn computes: its
\* validator step gives what it gives when the turn runs alone.
C30_SessionsIndependent ==
  [][ \A p \in Procs :
        proc'[p] # proc[p] =>
          /\ \A sid \in SessionIds \ {proc'[p].sid} : store'[sid] = store[sid]
          /\ proc[p].pc = "validate" /\ catalog.loaded_by \notin {Null, proc[p].sid}
               => proc'[p].s = ValidatedAlone(proc[p]) ]_vars

\* a step of a turn changes the stored state of no other session
C30_StoreFrame ==
  [][ \A p \in Procs :
        proc'[p] # proc[p] =>
          \A sid \in SessionIds \ {proc'[p].sid} : store'[sid] = store[sid] ]_vars

\* ------------------------------------------------------------------------
\* Merge idempotence (C37)
\* ------------------------------------------------------------------------
\* C37: merging a resolution into the slot state it has already been merged
\* into changes nothing: merge(merge(old, new), new) = merge(old, new).
C37_MergeIdempotent ==
  pure.fn = "merge" => MergeRequiredFields(pure.out, pure.new) = pure.out

\* a resolution with a non-empty value for a field has been merged into a
\* slot state that held another value for it
C37_Witness ==
  /\ pure.fn = "merge"
  /\ \E i \in 1..Len(pure.new) :
       /\ pure.new[i].v.t # "none"
       /\ pure.new[i].v.items # <<>>
       /\ DictHas(pure.old, pure.new[i].k)
       /\ DictGet(pure.old, pure.new[i].k).t = "list"
       /\ DictGet(pure.old, pure.new[i].k).items # <<>>
       /\ DictGet(pure.out, pure.new[i].k) # DictGet(pure.old, pure.new[i].k)

\* a field name: one word
IsFieldName(toks) ==
  Len(toks) = 1 /\ toks[1] \notin {" ", "(", ")", ",", "|", ""}

\* an alternative of the grammar: a field name, or a parenthesized
\* comma-separated list of field names, blanks around the tokens allowed
IsAlternative(toks) ==
  LET a == Strip(toks)
      items == Split(SubSeq(a, 2, Len(a) - 1), ",")
  IN \/ IsFieldName(a)
     \/ /\ Len(a) >= 3 /\ Head(a) = "(" /\ a[Len(a)] = ")"
        /\ \A i \in 1..Len(items) : IsFieldName(Strip(items[i]))

\* an expression of the grammar: alternatives separated by bars
IsExpression(toks) ==
  LET alts == Split(toks, "|")
  IN \A i \in 1..Len(alts) : IsAlternative(alts[i])

WithoutBlanks(toks) == SelectSeq(toks, LAMBDA x : x # " ")

Unbalanced(toks) ==
  \/ Len(SelectSeq(toks, LAMBDA x : x = "("))
       # Len(SelectSeq(toks, LAMBDA x : x = ")"))
  \/ \E i \in 1..Len(toks) :
       Len(SelectSeq(SubSeq(toks, 1, i), LAMBDA x : x = ")"))
         > Len(SelectSeq(SubSeq(toks, 1, i), LAMBDA x : x = "("))

\* C36: a malformed expression (unbalanced parentheses, with or without a
\* bar) is read as exactly one branch.
C36_MalformedSingleBranch ==
  pure.fn = "parse" /\ Unbalanced(pure.expr) => Len(pure.out) = 1

\* what holds of them: without a bar in the expression the reading is one
\* branch, and with bars there is one branch per alternative
C36_MalformedBranchPerAlternative ==
  pure.fn = "parse" /\ Unbalanced(pure.expr) =>
    Len(pure.out) = Len(Split(Strip(pure.expr), "|"))

\* C31: _retry_oai calls the wrapped function at most OAI_MAX_RETRIES (3)
\* times, stops at the first success, calls again only after a rate-limit,
\* API or timeout error, re-raises such an error after the third failure and
\* any other error at once; the catalog query is made once per use, with no
\* retry.
C31_RetryPolicy ==
  /\ pure.fn = "retry" =>
       LET n == pure.out.calls
           last == pure.outcomes[n]
       IN /\ n \in 1..OAI_MAX_RETRIES
          /\ \A i \in 1..(n - 1) : pure.outcomes[i] \in Retryable
          /\ pure.out.result = last
          /\ last \in Retryable => n = OAI_MAX_RETRIES
          /\ pure.out.sleeps = n - 1
  /\ pure.fn = "filter" =>
       /\ pure.out.calls = 1
       /\ pure.out.executes <= 1
       /\ pure.pool => pure.out.executes = 1 /\ pure.out.result = pure.query

\* two transient failures, then the third call succeeds
C31_Witness ==
  /\ pure.fn = "retry"
  /\ pure.outcomes[1] = "RateLimitError"
  /\ pure.outcomes[2] = "APITimeoutError"
  /\ pure.outcomes[3] = "ok"
  /\ pure.out = [calls |-> 3, sleeps |-> 2, result |-> "ok"]

\* the numeric mentions of a message, and the value of one in tenths
Mentions(msg) == {i \in 1..Len(msg) : msg[i].t = "num"}

MentionValue(tok) ==
  (tok.int * 10 + (IF tok.frac = <<>> THEN 0 ELSE tok.frac[1]))
    * (IF tok.suf = "k" THEN 1000 ELSE IF tok.suf = "lakh" THEN 100000 ELSE 1)

\* characters between the starts of tokens i and j
Apart(msg, i, j) ==
  IF StartOf(msg, i) >= StartOf(msg, j) THEN StartOf(msg, i) - StartOf(msg, j)
  ELSE StartOf(msg, j) - StartOf(msg, i)

\* v is the acv of the message: null without a mention; else the decimal
\* string of a mention that is nearest a context keyword, or, without a
\* keyword, of a largest mention
IsAcvOf(msg, v) ==
  LET ctx == {i \in 1..Len(msg) : msg[i].t = "ctx"}
      near(i) == CHOOSE d \in {Apart(msg, i, c) : c \in ctx} :
                   \A c \in ctx : d <= Apart(msg, i, c)
  IN IF Mentions(msg) = {} THEN v = Null
     ELSE \E i \in Mentions(msg) :
            /\ v = NormalizeNumberStr(MentionValue(msg[i]))
            /\ ctx # {} => \A j \in Mentions(msg) : near(i) <= near(j)
            /\ ctx = {} => \A j \in Mentions(msg) :
                             MentionValue(msg[j]) <= MentionValue(msg[i])

\* "10k ACV, 8 hours, US"
TenKAcvEightHours ==
  <<[t |-> "num", int |-> 10, frac |-> <<>>, suf |-> "k", unit |-> FALSE],
    [t |-> "ctx"],
    [t |-> "num", int |-> 8, frac |-> <<>>, suf |-> "", unit |-> TRUE]>>

\* C32: for acv, the fresh-text extractor and the follow-up resolver both
\* return the mention nearest a context keyword (else the largest), times
\* its magnitude suffix, as a decimal string, and null without raising when
\* the message has no number; "10k ACV, 8 hours, US" gives acv "10000" and
\* hours "8".
C32_AcvExtraction ==
  pure.fn = "extract" =>
    /\ IsAcvOf(pure.msg, pure.acv_val)
    /\ IsAcvOf(pure.msg, pure.acv)
    /\ Len(pure.msg) >= 3 /\ SubSeq(pure.msg, 1, 3) = TenKAcvEightHours =>
         /\ pure.acv_val = "10000" /\ pure.hours_val = "8"
         /\ pure.acv = "10000" /\ pure.hours = "8"

\* what holds of the fresh-text extractor: the value is as claimed
C32_FreshTextAcv ==
  pure.fn = "extract" =>
    /\ IsAcvOf(pure.msg, pure.acv_val)
    /\ Len(pure.msg) >= 3 /\ SubSeq(pure.msg, 1, 3) = TenKAcvEightHours =>
         pure.acv_val = "10000" /\ pure.hours_val = "8"

\* what holds of the follow-up resolver: its pattern does not compile, so
\* a message that is not empty never gets an acv value
C32_FollowupAcvRaises ==
  pure.fn = "extract" =>
    pure.acv = IF pure.msg = <<>> THEN Null ELSE "re.error"

\* v is the hours value of the message: null without a number followed by
\* a unit, else the last such number, an integral one without fraction
IsHoursOf(msg, v) ==
  LET units == {i \in Mentions(msg) : msg[i].unit}
      last == msg[CHOOSE i \in units : \A j \in units : j <= i]
  IN IF units = {} THEN v = Null
     ELSE v = NormalizeNumberStr(last.int * 10
                                   + (IF last.frac = <<>> THEN 0 ELSE last.frac[1]))

\* C33: for hours, the fresh-text extractor and the follow-up resolver both
\* return a value only when a number is followed by an hour unit, namely the
\* last such number, normalized (integral values without a fractional
\* part); numbers without a unit give no hours value.
C33_HoursExtraction ==
  pure.fn = "extract" =>
    /\ IsHoursOf(pure.msg, pure.hours_val)
    /\ IsHoursOf(pure.msg, pure.hours)

\* what holds of both: with a unit in the message the last number with a
\* unit is taken, and the follow-up resolver gives no value without a unit
C33_LastWithUnit ==
  pure.fn = "extract" =>
    LET units == {i \in Mentions(pure.msg) : pure.msg[i].unit}
        last == pure.msg[CHOOSE i \in units : \A j \in units : j <= i]
    IN IF units = {} THEN pure.hours = Null
       ELSE /\ pure.hours = RawText(last)
            /\ IsHoursOf(pure.msg, pure.hours_val)

C38_SessionLifecycle ==
  [][\A p \in Procs :
       LET q == proc[p]
           r == proc'[p]
       IN /\ q.pc \in {"idle", "done"} /\ r.pc \notin {"idle", "done"} =>
               IF r.given \in SessionIds /\ store[r.given] # <<>>
                 THEN /\ r.sid = r.given
                      /\ r.s = store[r.given][1]
                      /\ r.pc # "boot_save"
                 ELSE /\ r.sid \in SessionIds /\ r.sid # r.given
                      /\ store[r.sid] = <<>>
                      /\ r.s.session_id = r.sid
                      /\ r.s.required_fields = <<>>
                      /\ r.s.messages = <<>>
                      /\ r.pc = "boot_save"
          /\ q.pc = "boot_save" /\ r.pc # "boot_save" /\ r.out # "error" =>
               /\ store'[q.sid] = <<q.s>>
               /\ r.pc = "um_get"
          /\ q.pc \notin {"idle", "done"} => r.sid = q.sid
          /\ q.pc \notin {"idle", "done"} /\ r.pc = "done" /\ r.out \in Responses
               => r.rid = q.sid]_vars

\* a turn that named a session the store does not have has returned a
\* response under the id of the session created for it
C38_Witness ==
  \E p \in Finished :
    /\ proc[p].given = "expired"
    /\ proc[p].out \in Responses
    /\ proc[p].sid \in SessionIds
    /\ proc[p].rid = proc[p].sid

\* ------------------------------------------------------------------------
\* Responses of answering and of asking turns (C39, C40)
\* ------------------------------------------------------------------------
\* C39: a turn that produces a new answer (catalog query, continuation or
\* document QA) responds final_answer with that answer, also when a
\* follow-up question of an earlier turn is stored at its start.
C39_NewAnswerIsReturned ==
  turn.answers = 1 =>
    /\ session.final_answer # Null
    /\ Response.response_type = "final_answer"
    /\ Response.text = session.final_answer

\* what holds: the answer is returned by the turns that clear the stored
\* question (completion, document QA on a follow-up turn), and by the others
\* when no question with a field name was stored at their start
C39_ReturnedUnlessQuestionStored ==
  [][turn'.answers = 1 =>
       /\ session'.final_answer # Null
       /\ \/ turn'.exit = "final"
          \/ turn'.kind = "followup"
          \/ ~(session.followup.set /\ session.followup.field_name # Null)
          => /\ MakeApiResponse(session').response_type = "final_answer"
             /\ MakeApiResponse(session').text = session'.final_answer]_vars

\* C40: a turn that ends by asking has stored a followup whose field_name
\* is a non-empty field name with an unresolved slot, and responds follow_up
\* with that field_name; so does the fresh-text turn whose intent is unknown
\* or has an empty requirement list.
C40_AskNamesUnresolvedField ==
  turn.exit \in {"ask", "reask"} =>
    /\ session.followup.set
    /\ session.followup.field_name \notin {Null, ""}
    /\ ~Single(session.required_fields, session.followup.field_name)
    /\ Response.response_type = "follow_up"
    /\ Response.field_name = session.followup.field_name

\* what holds: the asking turn of an intent with a requirement names an
\* unresolved field; a re-ask names the field of the turn
C40_AskWithRequirement ==
  turn.exit \in {"ask", "reask"} =>
    /\ session.followup.set
    /\ turn.exit = "ask" /\ ReqExprOf(session.last_intent) # <<>> =>
         /\ session.followup.field_name \notin {Null, ""}
         /\ ~Single(session.required_fields, session.followup.field_name)
         /\ Response.response_type = "follow_up"
         /\ Response.field_name = session.followup.field_name
    /\ turn.exit = "reask" =>
         /\ session.followup.field_name = turn.field
         /\ Response.response_type = "follow_up"
         /\ Response.field_name = turn.field

====
